---- MODULE Spec2Model ----
(***************************************************************************)
(* The bulk-import cancellation subsystem of the URL list application:     *)
(* the AbortRegistry singleton (src/src/utils/abortRegistry.ts), the       *)
(* window.fetch wrapper it installs, and the import pipeline that drives   *)
(* it.                                                                      *)
(***************************************************************************)
EXTENDS Integers, Sequences, FiniteSets, TLC

(***************************************************************************)
(* Bounds of the model.                                                    *)
(***************************************************************************)
\* AbortController objects that may exist at the same time.
MaxCtrl == 2

\* Records one import file may hold.
MaxRecords == 2

\* Controller identities; 0 stands for "no controller / no signal".
Ctrl == 1..MaxCtrl

\* Request targets: the list API (batch and per-record persistence) and the
\* metadata-enrichment endpoint.
ListUrl == "/api/lists"
MetadataUrl == "/api/metadata"
Urls == {ListUrl, MetadataUrl}

(***************************************************************************)
(* Function values that can sit in window.fetch or in the registry's saved *)
(* references.  kind is the function's code; bound is TRUE for the result  *)
(* of Function.prototype.bind, whose toString() is "[native code]" and     *)
(* whose identity differs from the function it was bound from.             *)
(***************************************************************************)
Fn(k) == [kind |-> k, bound |-> FALSE]

Null == Fn("null")
NativeFetch == Fn("native")
OtherFetch == Fn("other")
\* The closure assigned to window.fetch by startGlobalInterception.  Every
\* such closure reads self.originalFetch when it is called, so all of them
\* behave alike and one value stands for them.
Wrapper == Fn("wrapper")

\* window.fetch.bind(window)
Bind(f) == [f EXCEPT !.bound = TRUE]

IsWrappedStrNever(f) == FALSE

\* The marker test of the source: the function's toString() contains
\* "__bulkImportActive" or "globalFetchControllers".
IsWrappedStr(f) == f.kind = "wrapper" /\ ~f.bound

\* Ground truth: the function is (a bound copy of) a registry wrapper.
IsWrapperFn(f) == f.kind = "wrapper"

\* a || b || c on references
OrElse(a, b) == IF a # Null THEN a ELSE b

(***************************************************************************)
(* Request keys.  The Date.now() and Math.random() parts are modelled      *)
(* together as a nonce that no call still in flight has.                   *)
(***************************************************************************)

RequestIdUrlOnly(url, nonce) == <<url, 0>>

\* requestId = `${url}_${Date.now()}_${Math.random()}`
RequestId(url, nonce) == <<url, nonce>>

VARIABLES
    windowFetch,             \* window.fetch
    originalFetch,           \* AbortRegistry.originalFetch
    permanentOriginalFetch,  \* AbortRegistry.permanentOriginalFetch
    nativeFetchBackup,       \* AbortRegistry.nativeFetchBackup
    isIntercepting,          \* AbortRegistry.isIntercepting
    bulkImportActive,        \* window.__bulkImportActive
    disableInterception,     \* window.__bulkImportDisableInterception
    development,             \* process.env.NODE_ENV === "development"
    controllers,             \* AbortRegistry.controllers (a Set)
    globalFetchControllers,  \* AbortRegistry.globalFetchControllers (a Map)
    alive,                   \* AbortController objects that exist
    aborted,                 \* controllers whose signal.aborted is true
    faulty,                  \* objects whose abort() throws
    pending,                 \* intercepted calls whose promise has not settled
    fetchBeforeStart,        \* window.fetch as the last effective start found it
    lastOp,                  \* the operation that produced this state
    pc,                      \* stage of the import pipeline
    records,                 \* the parsed records; after validation the valid ones
    idx,                     \* record the sequential fallback is working on
    awaiting,                \* controller of the call the pipeline awaits, or 0
    added,                   \* ImportOutcome.added
    skipped,                 \* ImportOutcome.skipped
    exitPath,                \* how the last import reached Cleanup
    request,                 \* the last outgoing request of the running import
    persisted,               \* ids of the records whose persistence call was issued
    lifecycle,               \* lifecycle calls of the running import, in order
    bulkImportJustCompleted, \* window.__bulkImportJustCompleted
    navTimers,               \* targets of the navbar's pending navigation timers
    location,                \* window.location.href
    caches,                  \* framework caches that hold entries
    brokenCaches,            \* framework caches whose clear() throws
    listUrls,                \* the urls of the list in the database
    nextUrlId,               \* the next id crypto.randomUUID() hands out
    req,                     \* the bulk-import requests the server is handling
    sessions,                \* the rows of the session table
    nextSession,             \* the next session id (and token) to hand out
    clock,                   \* the time, in seconds
    ticks,                   \* how often the clock has been advanced
    sessionCache,            \* the module-level sessionCache of auth.ts
    jobs,                    \* the session cleanups that are running
    touches,                 \* lastActivityAt updates issued and not yet applied
    permList,                \* the list a permission check is about
    permUser,                \* the user of the session (getCurrentUser, useSession)
    serverPerms,             \* what checkPermissions last returned
    clientPerms,             \* what useListPermissions last returned
    currentList,             \* the currentList store: the urls it shows
    deletion,                \* the delete-URL mutation that is running
    serverUrls,              \* the url ids of list l1 in the database
    globalInvalidationTimeout, \* the slug the pending debounce timer is for
    globalProcessedInvocations, \* the invocation keys already handled
    invalidations,           \* slugs whose unified query has been invalidated
    accepted                 \* slugs of the events that passed every check

regVars == <<windowFetch, originalFetch, permanentOriginalFetch,
             nativeFetchBackup, isIntercepting>>
flagVars == <<bulkImportActive, disableInterception, development>>
ctrlVars == <<controllers, globalFetchControllers, alive, aborted, faulty,
              pending>>
obsVars == <<request, persisted, lifecycle>>
pipeVars == <<pc, records, idx, awaiting, added, skipped, exitPath, obsVars>>
navVars == <<bulkImportJustCompleted, navTimers, location, caches,
             brokenCaches>>
routeVars == <<listUrls, nextUrlId, req>>
authVars == <<sessions, nextSession, clock, ticks, sessionCache, jobs,
              touches>>
permVars == <<permList, permUser, serverPerms, clientPerms>>
storeVars == <<currentList, deletion, serverUrls>>
sseVars == <<globalInvalidationTimeout, globalProcessedInvocations,
             invalidations, accepted>>
clientVars == <<permVars, storeVars, sseVars>>
backVars == <<authVars, clientVars>>
dataVars == <<routeVars, backVars>>
appVars == <<navVars, dataVars>>
nonAuthVars == <<regVars, flagVars, ctrlVars, fetchBeforeStart, pipeVars,
                 navVars, routeVars, clientVars>>
nonClientVars == <<regVars, flagVars, ctrlVars, fetchBeforeStart, pipeVars,
                   navVars, routeVars, authVars>>
vars == <<regVars, flagVars, ctrlVars, fetchBeforeStart, lastOp, pipeVars,
          appVars>>

Op(name) ==
    [op |-> name, target |-> Null, signal |-> 0, threw |-> FALSE,
     outcome |-> "", registeredCount |-> 0, interceptedCount |-> 0,
     href |-> "", token |-> 0, result |-> 0]

\* "No session" (null), "no cache entry" (null) and a cleanup slot in which
\* nothing runs.
NoSession == [id |-> 0, user |-> ""]

NoCache == [token |-> 0, session |-> NoSession, timestamp |-> 0]

Jobs == {"j1", "j2"}

IdleJob ==
    [pc |-> "idle", kind |-> "none", user |-> "", keep |-> 0, now |-> 0,
     own |-> 0, seen |-> {}, toDelete |-> {}, plan |-> {}]

\* "No user" (no session), "no list" (null) and "nothing returned yet".
NoUser == [id |-> "", email |-> <<>>]

NoList ==
    [id |-> "", userId |-> "", collaboratorRoles |-> <<>>,
     collaborators |-> {}, isPublic |-> FALSE]

NoPerms ==
    [canEdit |-> FALSE, canDelete |-> FALSE, canInvite |-> FALSE,
     canComment |-> FALSE, role |-> "unset", userId |-> ""]

\* How many urls list l1 starts with.
MaxStoreUrls == 3

\* The currentList store before a list page has loaded, and a delete-URL
\* mutation slot in which nothing runs.
EmptyStore == [id |-> "", slug |-> "", urls |-> <<>>]

IdleDeletion ==
    [pc |-> "idle", urlId |-> 0, before |-> EmptyStore,
     previous |-> EmptyStore]

\* Requests the server may be handling.
Reqs == {"r1", "r2"}

\* A request slot nothing is running in.
IdleRequest ==
    [pc |-> "idle", items |-> <<>>, before |-> <<>>, snapshot |-> <<>>,
     status |-> 0,
     writes |-> 0, activities |-> 0, listUpdated |-> 0,
     activityCreated |-> 0, urlIds |-> {}]

(***************************************************************************)
(* Construction of the singleton (field initialisers).                     *)
(***************************************************************************)
\* The field initialisers, run while window.fetch is wf.
Constructed(wf) ==
    /\ windowFetch = wf
    /\ originalFetch = Null
    /\ permanentOriginalFetch = Null
    /\ nativeFetchBackup = Bind(windowFetch)
    /\ isIntercepting = FALSE
    /\ bulkImportActive = FALSE
    /\ disableInterception = FALSE
    /\ development \in BOOLEAN
    /\ controllers = {}
    /\ globalFetchControllers = {}
    /\ alive = {}
    /\ aborted = {}
    /\ faulty = {}
    /\ pending = {}
    /\ fetchBeforeStart = Null
    /\ lastOp = Op("init")
    /\ pc = "Idle"
    /\ records = <<>>
    /\ idx = 0
    /\ awaiting = 0
    /\ added = 0
    /\ skipped = 0
    /\ exitPath = "none"
    /\ request = [kind |-> "none", ids |-> {}]
    /\ persisted = <<>>
    /\ lifecycle = <<>>
    /\ bulkImportJustCompleted = FALSE
    /\ navTimers = {}
    /\ location = "/"
    /\ caches = {}
    /\ brokenCaches = {}
    /\ listUrls = <<>>
    /\ nextUrlId = 1
    /\ req = [r \in Reqs |-> IdleRequest]
    /\ sessions = {}
    /\ nextSession = 1
    /\ clock = 0
    /\ ticks = 0
    /\ sessionCache = NoCache
    /\ jobs = [j \in Jobs |-> IdleJob]
    /\ touches = {}
    /\ serverPerms = NoPerms
    /\ clientPerms = NoPerms
    /\ currentList = EmptyStore
    /\ deletion = IdleDeletion
    /\ serverUrls = [i \in 1..MaxStoreUrls |-> i]
    /\ globalInvalidationTimeout = ""
    /\ globalProcessedInvocations = {}
    /\ invalidations = {}
    /\ accepted = {}

\* No list page is open and nobody is signed in.
NothingOpen ==
    /\ permList = NoList
    /\ permUser = NoUser

Init == \E wf \in {NativeFetch, OtherFetch} : Constructed(wf) /\ NothingOpen

(***************************************************************************)
(* Helpers on the controller collections.                                  *)
(***************************************************************************)
\* Controllers created by the wrapper for calls still in flight.
InterceptedCtrls == {p.ctrl : p \in pending}

\* Controllers created by callers (registered or passed as init.signal).
CallerCtrls == alive \ InterceptedCtrls

Min(S) == CHOOSE x \in S : \A y \in S : x <= y

\* Map.set(key, c)
MapSet(map, key, c) ==
    {e \in map : e.key # key} \cup {[key |-> key, ctrl |-> c]}

\* Map.delete(key)
MapDelete(map, key) == {e \in map : e.key # key}

\* Array.from(map.values())
MapValues(map) == {e.ctrl : e \in map}

\* controller.abort() on every controller of S that is a working, not yet
\* aborted AbortController: its signal becomes aborted, and the "abort"
\* listeners the wrapper attached to it abort their own controllers.
AbortedAfterNoMerge(S, ab, fl, pend) == ab \cup ((S \ fl) \ ab)

AbortedAfter(S, ab, fl, pend) ==
    LET hit == (S \ fl) \ ab
    IN  ab \cup hit \cup {p.ctrl : p \in {q \in pend : q.listener \in hit}}

(***************************************************************************)
(* startGlobalInterception                                                 *)
(***************************************************************************)
StartOriginalNoMarkerCheck(wf, perm, native) == wf

\* Lines 71-96: the saved original, after the recursive-wrapper check.
StartOriginal(wf, perm, native) ==
    IF IsWrappedStr(wf)
    THEN IF perm # Null THEN perm
         ELSE IF native # Null THEN native
         ELSE wf
    ELSE wf

StartBody ==
    /\ lastOp' = Op("start")
    /\ IF isIntercepting
       THEN UNCHANGED <<regVars, fetchBeforeStart>>
       ELSE /\ fetchBeforeStart' = windowFetch
            /\ originalFetch' =
                 StartOriginal(windowFetch, permanentOriginalFetch,
                               nativeFetchBackup)
            /\ permanentOriginalFetch' =
                 IF permanentOriginalFetch = Null
                 THEN windowFetch
                 ELSE permanentOriginalFetch
            /\ windowFetch' = Wrapper
            /\ isIntercepting' = TRUE
            /\ UNCHANGED nativeFetchBackup
    /\ UNCHANGED <<development, disableInterception, ctrlVars>>

StartGlobalInterception ==
    StartBody /\ UNCHANGED <<bulkImportActive, pipeVars, appVars>>

(***************************************************************************)
(* stopGlobalInterception                                                  *)
(***************************************************************************)
StopRestoreFromNative(wf, orig, perm, native, dev) ==
    [fetch |-> native, original |-> native]

\* Lines 201-281: the function left in window.fetch and in originalFetch.
StopRestore(wf, orig, perm, native, dev) ==
    LET first ==
            IF orig # Null
            THEN [fetch |-> orig, original |-> orig, restored |-> TRUE]
            ELSE IF perm # Null
            THEN [fetch |-> perm, original |-> perm, restored |-> TRUE]
            ELSE [fetch |-> wf, original |-> orig, restored |-> FALSE]
        stillWrapped == IsWrappedStr(first.fetch)
    IN  IF dev /\ first.restored /\ stillWrapped /\ native # Null
        THEN [fetch |-> native, original |-> native]
        ELSE [fetch |-> first.fetch, original |-> first.original]

StopBody ==
    LET r == StopRestore(windowFetch, originalFetch, permanentOriginalFetch,
                         nativeFetchBackup, development)
    IN  /\ windowFetch' = r.fetch
        /\ originalFetch' = r.original
        /\ isIntercepting' = FALSE
        /\ lastOp' = Op("stop")
        /\ UNCHANGED <<permanentOriginalFetch, nativeFetchBackup,
                       development, disableInterception, ctrlVars,
                       fetchBeforeStart>>

StopGlobalInterception ==
    StopBody /\ UNCHANGED <<bulkImportActive, pipeVars, appVars>>

(***************************************************************************)
(* forceRestoreNativeFetch                                                 *)
(***************************************************************************)
ForceRestoreNativeFetch ==
    /\ IF nativeFetchBackup # Null
       THEN /\ windowFetch' = nativeFetchBackup
            /\ originalFetch' = nativeFetchBackup
       ELSE UNCHANGED <<windowFetch, originalFetch>>
    /\ lastOp' = Op("forceRestore")
    /\ UNCHANGED <<permanentOriginalFetch, nativeFetchBackup, isIntercepting,
                   flagVars, ctrlVars, fetchBeforeStart, pipeVars, appVars>>

(***************************************************************************)
(* register / unregister                                                   *)
(***************************************************************************)
\* register(controller).  The caller passes an object it created: a new one
\* (possibly one whose abort() throws) or one it already holds.
Register(c, bad) ==
    /\ c \notin InterceptedCtrls
    /\ \/ /\ c \in alive
          /\ bad = (c \in faulty)
          /\ UNCHANGED <<alive, faulty>>
       \/ /\ c \notin alive
          /\ c = Min(Ctrl \ alive)
          /\ alive' = alive \cup {c}
          /\ faulty' = IF bad THEN faulty \cup {c} ELSE faulty
    /\ controllers' = controllers \cup {c}
    /\ lastOp' = Op("register")
    /\ UNCHANGED <<regVars, flagVars, globalFetchControllers, aborted,
                   pending, fetchBeforeStart, pipeVars, appVars>>

\* unregister(controller): no-op if absent.
Unregister(c) ==
    /\ c \in CallerCtrls
    /\ controllers' = controllers \ {c}
    /\ lastOp' = Op("unregister")
    /\ UNCHANGED <<regVars, flagVars, globalFetchControllers, alive, aborted,
                   faulty, pending, fetchBeforeStart, pipeVars, appVars>>

\* The caller that owns controller c aborts it.
CallerAbort(c) ==
    /\ c \in CallerCtrls
    /\ c \notin aborted
    /\ c \notin faulty
    /\ aborted' = AbortedAfter({c}, aborted, faulty, pending)
    /\ lastOp' = Op("callerAbort")
    /\ UNCHANGED <<regVars, flagVars, controllers, globalFetchControllers,
                   alive, faulty, pending, fetchBeforeStart, pipeVars, appVars>>

\* The caller drops its last reference to a controller nothing else holds.
Release(c) ==
    /\ c \in CallerCtrls
    /\ c \notin controllers
    /\ \A p \in pending : p.listener # c
    /\ alive' = alive \ {c}
    /\ aborted' = aborted \ {c}
    /\ faulty' = faulty \ {c}
    /\ lastOp' = Op("release")
    /\ UNCHANGED <<regVars, flagVars, controllers, globalFetchControllers,
                   pending, fetchBeforeStart, pipeVars, appVars>>

(***************************************************************************)
(* abortAll / getCount                                                     *)
(***************************************************************************)
\* abortAll with the two forEach bodies not guarded by try/catch: the first
\* object whose abort() throws ends the call.
AbortAllUnguarded(regs, map, ab, fl, pend) ==
    LET targets == regs \cup MapValues(map)
    IN  IF targets \cap fl = {}
        THEN [aborted |-> AbortedAfter(targets, ab, fl, pend),
              controllers |-> {}, map |-> {}, threw |-> FALSE]
        ELSE LET stop == Min(targets \cap fl)
             IN  [aborted |->
                      AbortedAfter({c \in targets : c < stop}, ab, fl, pend),
                  controllers |-> regs, map |-> map, threw |-> TRUE]

\* abortAll that forgets the intercepted controllers.
AbortAllRegisteredOnly(regs, map, ab, fl, pend) ==
    [aborted |-> AbortedAfter(regs, ab, fl, pend),
     controllers |-> {}, map |-> map, threw |-> FALSE]

\* Lines 299-339.
AbortAllResult(regs, map, ab, fl, pend) ==
    [aborted |-> AbortedAfter(regs \cup MapValues(map), ab, fl, pend),
     controllers |-> {}, map |-> {}, threw |-> FALSE]

\* The effect of abortAll() on the controllers and the two collections.
AbortAllState ==
    LET r == AbortAllResult(controllers, globalFetchControllers, aborted,
                            faulty, pending)
    IN  /\ aborted' = r.aborted
        /\ controllers' = r.controllers
        /\ globalFetchControllers' = r.map
        /\ UNCHANGED <<regVars, development, disableInterception, alive,
                       faulty, pending, fetchBeforeStart>>

AbortAllBody ==
    LET r == AbortAllResult(controllers, globalFetchControllers, aborted,
                            faulty, pending)
    IN  /\ AbortAllState
        /\ lastOp' = [Op("abortAll") EXCEPT
                         !.threw = r.threw,
                         !.registeredCount = Cardinality(controllers),
                         !.interceptedCount =
                             Cardinality(globalFetchControllers)]

AbortAll ==
    AbortAllBody /\ UNCHANGED <<bulkImportActive, pipeVars, appVars>>

\* getCount()
GetCount == Cardinality(controllers) + Cardinality(globalFetchControllers)

(***************************************************************************)
(* The wrapper installed in window.fetch                                   *)
(***************************************************************************)
\* A wrapper closure exists once the first startGlobalInterception has run;
\* code may call it as window.fetch or through a reference taken earlier.
WrapperExists == permanentOriginalFetch # Null

WrapperTracksAlways(active, disabled) == TRUE

\* Lines 115-133: TRUE when the call is intercepted rather than passed on.
WrapperTracks(active, disabled) == ~disabled /\ active

\* The function the wrapper delegates to.
WrapperTarget(disabled, orig, native, wf) ==
    IF disabled THEN OrElse(orig, OrElse(native, wf)) ELSE orig

\* wrapper(input, init): url is the request target, sig the controller of
\* init.signal (0 when the caller passes none).
WrapperBody(url, sig) ==
    /\ WrapperExists
    /\ sig \in CallerCtrls \cup {0}
    /\ IF WrapperTracks(bulkImportActive, disableInterception)
       THEN /\ Ctrl \ alive # {}
            /\ LET c == Min(Ctrl \ alive)
                   requestId == RequestId(url, c)
                   linked == sig # 0 /\ sig \notin aborted
               IN  /\ globalFetchControllers' =
                         MapSet(globalFetchControllers, requestId, c)
                   /\ alive' = alive \cup {c}
                   /\ aborted' =
                         IF sig # 0 /\ sig \in aborted
                         THEN aborted \cup {c}
                         ELSE aborted
                   /\ pending' = pending \cup
                         {[ctrl |-> c, key |-> requestId,
                           listener |-> IF linked THEN sig ELSE 0]}
                   /\ lastOp' = [Op("call") EXCEPT
                                    !.target = originalFetch,
                                    !.signal = sig]
            /\ UNCHANGED <<controllers, faulty>>
       ELSE /\ lastOp' = [Op("call") EXCEPT
                             !.target = WrapperTarget(disableInterception,
                                                      originalFetch,
                                                      nativeFetchBackup,
                                                      windowFetch)]
            /\ UNCHANGED ctrlVars
    /\ UNCHANGED <<regVars, flagVars, fetchBeforeStart>>

WrapperCall(url, sig) ==
    WrapperBody(url, sig) /\ UNCHANGED <<pipeVars, appVars>>

\* Lines 177-180: the finally handler of an intercepted call.
SettleCleanup(map, key) == MapDelete(map, key)

\* The promise of the intercepted call of controller c settles.
SettleBody(c, result) ==
    /\ \E p \in pending :
          /\ p.ctrl = c
          /\ result \in (IF c \in aborted THEN {"abort"} ELSE {"ok", "error"})
          /\ globalFetchControllers' =
                SettleCleanup(globalFetchControllers, p.key)
          /\ pending' = pending \ {p}
          /\ lastOp' = [Op("settle") EXCEPT !.outcome = result]
    /\ alive' = alive \ {c}
    /\ aborted' = aborted \ {c}
    /\ UNCHANGED <<regVars, flagVars, controllers, faulty, fetchBeforeStart>>

SettleCall(c, result) ==
    SettleBody(c, result) /\ UNCHANGED <<pipeVars, appVars>>

(***************************************************************************)
(* Code outside the registry                                               *)
(***************************************************************************)
\* The import handler sets or clears window.__bulkImportActive.
SetBulkImportActive(b) ==
    /\ bulkImportActive # b
    /\ bulkImportActive' = b
    /\ lastOp' = Op("setActive")
    /\ UNCHANGED <<regVars, disableInterception, development, ctrlVars,
                   fetchBeforeStart, pipeVars, appVars>>

\* Recovery code sets or clears window.__bulkImportDisableInterception.
SetDisableInterception(b) ==
    /\ disableInterception # b
    /\ disableInterception' = b
    /\ lastOp' = Op("setDisable")
    /\ UNCHANGED <<regVars, bulkImportActive, development, ctrlVars,
                   fetchBeforeStart, pipeVars, appVars>>

\* Other code assigns window.fetch: its own function, the browser's, or a
\* reference to the wrapper it read while interception was on.
EnvInstallFetch(f) ==
    /\ f \in {NativeFetch, OtherFetch} \cup
             (IF WrapperExists THEN {Wrapper} ELSE {})
    /\ f # windowFetch
    /\ windowFetch' = f
    /\ lastOp' = Op("envInstall")
    /\ UNCHANGED <<originalFetch, permanentOriginalFetch, nativeFetchBackup,
                   isIntercepting, flagVars, ctrlVars, fetchBeforeStart,
                   pipeVars, appVars>>

(***************************************************************************)
(* Spec: the registry and its wrapper driven by application code through   *)
(* the public operations, with no other code touching window.fetch.        *)
(***************************************************************************)
TrackerNext ==
    \/ AbortAll
    \/ \E c \in Ctrl, bad \in BOOLEAN : Register(c, bad)
    \/ \E c \in Ctrl : Unregister(c)
    \/ \E c \in Ctrl : CallerAbort(c)
    \/ \E c \in Ctrl : Release(c)

CallNext ==
    \/ \E url \in Urls, sig \in Ctrl \cup {0} : WrapperCall(url, sig)
    \/ \E c \in Ctrl, result \in {"ok", "error", "abort"} :
          SettleCall(c, result)
    \/ \E b \in BOOLEAN : SetBulkImportActive(b)

Next ==
    \/ StartGlobalInterception
    \/ StopGlobalInterception
    \/ TrackerNext
    \/ CallNext

Spec == Init /\ [][Next]_vars

(***************************************************************************)
(* SpecEnv: the interception life cycle with the page's other code, which  *)
(* may assign window.fetch, use the recovery operations and set the bypass *)
(* flag.  Callers pass no signal and register nothing here.                *)
(***************************************************************************)
NextEnv ==
    \/ StartGlobalInterception
    \/ StopGlobalInterception
    \/ ForceRestoreNativeFetch
    \/ \E url \in Urls : WrapperCall(url, 0)
    \/ \E c \in Ctrl, result \in {"ok", "error", "abort"} :
          SettleCall(c, result)
    \/ \E b \in BOOLEAN : SetBulkImportActive(b)
    \/ \E b \in BOOLEAN : SetDisableInterception(b)
    \/ \E f \in {NativeFetch, OtherFetch, Wrapper} : EnvInstallFetch(f)

SpecEnv == Init /\ [][NextEnv]_vars

(***************************************************************************)
(* SpecRecovery: application code alone drives the registry, recovery      *)
(* operation included; nothing else assigns window.fetch.                  *)
(***************************************************************************)
NextRecovery ==
    \/ StartGlobalInterception
    \/ StopGlobalInterception
    \/ ForceRestoreNativeFetch
    \/ \E url \in Urls : WrapperCall(url, 0)
    \/ \E c \in Ctrl, result \in {"ok", "error", "abort"} :
          SettleCall(c, result)
    \/ \E b \in BOOLEAN : SetBulkImportActive(b)

SpecRecovery == Init /\ [][NextRecovery]_vars

(***************************************************************************)
(* SpecReload: the module is evaluated again (hot reload) while the        *)
(* wrapper an earlier instance installed may still be in window.fetch; the *)
(* new instance starts from its field initialisers.  Only the life cycle   *)
(* is driven here: no call goes through a wrapper.                         *)
(***************************************************************************)
InitReload ==
    \E wf \in {NativeFetch, OtherFetch, Wrapper} :
        Constructed(wf) /\ NothingOpen

NextReload ==
    \/ StartGlobalInterception
    \/ StopGlobalInterception
    \/ ForceRestoreNativeFetch
    \/ \E b \in BOOLEAN : SetBulkImportActive(b)
    \/ \E b \in BOOLEAN : SetDisableInterception(b)
    \/ \E f \in {NativeFetch, OtherFetch, Wrapper} : EnvInstallFetch(f)

SpecReload == InitReload /\ [][NextReload]_vars

(***************************************************************************)
(* The import pipeline and its cleanup.  The import handler itself is not  *)
(* among the sources; its stages follow the design document: parse,        *)
(* validate, intercept, batch attempt, sequential fallback, cleanup, with  *)
(* cleanup as the finally of everything after the import flag is set.      *)
(***************************************************************************)
\* Parser results: up to MaxRecords records, each with a valid or invalid url.
Inputs == UNION {[1..n -> BOOLEAN] : n \in 0..MaxRecords}

WaitStages == {"BatchWait", "MetaWait", "PersistWait"}
IssueStages == {"Batch", "Meta", "Persist"}
AfterStartStages == WaitStages \cup IssueStages \cup {"CleanupFlag"}

PipelineOp(name) ==
    /\ lastOp' = Op(name)
    /\ UNCHANGED <<regVars, development, disableInterception, ctrlVars,
                   fetchBeforeStart, appVars>>

StageAfterMetaFailSkipsRecord(st, good, i, n) ==
    IF st = "MetaWait" /\ ~good
    THEN [pc |-> IF i < n THEN "Meta" ELSE "CleanupFlag",
          idx |-> IF i < n THEN i + 1 ELSE i, add |-> 0, skip |-> 1,
          exit |-> IF i < n THEN "none" ELSE "fallback"]
    ELSE IF st = "BatchWait"
    THEN [pc |-> IF good THEN "CleanupFlag" ELSE "Meta",
          idx |-> IF good THEN i ELSE 1, add |-> IF good THEN n ELSE 0,
          skip |-> 0, exit |-> IF good THEN "batch" ELSE "none"]
    ELSE IF st = "MetaWait"
    THEN [pc |-> "Persist", idx |-> i, add |-> 0, skip |-> 0,
          exit |-> "none"]
    ELSE [pc |-> IF i < n THEN "Meta" ELSE "CleanupFlag",
          idx |-> IF i < n THEN i + 1 ELSE i,
          add |-> IF good THEN 1 ELSE 0, skip |-> IF good THEN 0 ELSE 1,
          exit |-> IF i < n THEN "none" ELSE "fallback"]

StageAfterPersistFailStops(st, good, i, n) ==
    IF st = "PersistWait" /\ ~good
    THEN [pc |-> "CleanupFlag", idx |-> i, add |-> 0, skip |-> 1,
          exit |-> "error"]
    ELSE IF st = "BatchWait"
    THEN [pc |-> IF good THEN "CleanupFlag" ELSE "Meta",
          idx |-> IF good THEN i ELSE 1, add |-> IF good THEN n ELSE 0,
          skip |-> 0, exit |-> IF good THEN "batch" ELSE "none"]
    ELSE IF st = "MetaWait"
    THEN [pc |-> "Persist", idx |-> i, add |-> 0, skip |-> 0,
          exit |-> "none"]
    ELSE [pc |-> IF i < n THEN "Meta" ELSE "CleanupFlag",
          idx |-> IF i < n THEN i + 1 ELSE i, add |-> 1, skip |-> 0,
          exit |-> IF i < n THEN "none" ELSE "fallback"]

\* Where the pipeline goes when the call of stage st ended; good is TRUE
\* for a response with a success status.  i is the current record, n the
\* number of valid records.
StageAfter(st, good, i, n) ==
    CASE st = "BatchWait" ->
            IF good
            THEN [pc |-> "CleanupFlag", idx |-> i, add |-> n, skip |-> 0,
                  exit |-> "batch"]
            ELSE [pc |-> "Meta", idx |-> 1, add |-> 0, skip |-> 0,
                  exit |-> "none"]
      [] st = "MetaWait" ->
            [pc |-> "Persist", idx |-> i, add |-> 0, skip |-> 0,
             exit |-> "none"]
      [] OTHER ->
            [pc |-> IF i < n THEN "Meta" ELSE "CleanupFlag",
             idx |-> IF i < n THEN i + 1 ELSE i,
             add |-> IF good THEN 1 ELSE 0,
             skip |-> IF good THEN 0 ELSE 1,
             exit |-> IF i < n THEN "none" ELSE "fallback"]

Advance(good) ==
    LET r == StageAfter(pc, good, idx, Len(records))
    IN  /\ pc' = r.pc
        /\ idx' = r.idx
        /\ added' = added + r.add
        /\ skipped' = skipped + r.skip
        /\ exitPath' = IF r.exit = "none" THEN exitPath ELSE r.exit
        /\ awaiting' = 0
        /\ UNCHANGED <<records, obsVars, appVars>>

\* beginImport(rawFile): the flag is set at import start.
BeginImport(input) ==
    /\ pc = "Idle"
    /\ bulkImportActive' = TRUE
    /\ records' = [i \in 1..Len(input) |-> [id |-> i, valid |-> input[i]]]
    /\ idx' = 0
    /\ awaiting' = 0
    /\ added' = 0
    /\ skipped' = 0
    /\ exitPath' = "none"
    /\ pc' = "Validating"
    /\ request' = [kind |-> "none", ids |-> {}]
    /\ persisted' = <<>>
    /\ lifecycle' = <<>>
    /\ PipelineOp("beginImport")

ImportValidateKeepsAll ==
    /\ pc = "Validating"
    /\ records' = records
    /\ skipped' = 0
    /\ pc' = "Intercept"
    /\ PipelineOp("validate")
    /\ UNCHANGED <<bulkImportActive, idx, awaiting, added, exitPath, obsVars>>

\* Records whose url is not a URL are dropped and counted as skipped.
ImportValidate ==
    /\ pc = "Validating"
    /\ records' = SelectSeq(records, LAMBDA r : r.valid)
    /\ skipped' = Len(records) - Len(records')
    /\ pc' = "Intercept"
    /\ PipelineOp("validate")
    /\ UNCHANGED <<bulkImportActive, idx, awaiting, added, exitPath, obsVars>>

\* abortRegistry.startGlobalInterception(); an import with no valid record
\* skips the batch attempt.
ImportIntercept ==
    /\ pc = "Intercept"
    /\ StartBody
    /\ pc' = IF records = <<>> THEN "CleanupFlag" ELSE "Batch"
    /\ exitPath' = IF records = <<>> THEN "empty" ELSE exitPath
    /\ lifecycle' = Append(lifecycle, "start")
    /\ UNCHANGED <<bulkImportActive, records, idx, awaiting, added, skipped,
                   request, persisted, appVars>>

\* What the request of stage st carries: the batch request every record the
\* handler holds, a per-record call the record the loop is at.
RequestOf(st, recs, i) ==
    [kind |-> st,
     ids |-> IF st = "Batch"
             THEN {recs[k].id : k \in 1..Len(recs)}
             ELSE {recs[i].id}]

\* The pipeline calls window.fetch (the wrapper) and awaits the result.
ImportIssue(st, url) ==
    /\ pc = st
    /\ windowFetch = Wrapper
    /\ WrapperBody(url, 0)
    /\ awaiting' =
          IF WrapperTracks(bulkImportActive, disableInterception)
          THEN Min(Ctrl \ alive)
          ELSE 0
    /\ pc' = CASE st = "Batch" -> "BatchWait"
               [] st = "Meta" -> "MetaWait"
               [] OTHER -> "PersistWait"
    /\ request' = RequestOf(st, records, idx)
    /\ persisted' = IF st = "Persist"
                    THEN Append(persisted, records[idx].id)
                    ELSE persisted
    /\ UNCHANGED <<records, idx, added, skipped, exitPath, lifecycle,
                   appVars>>

ImportBatchIssue == ImportIssue("Batch", ListUrl)

ImportMetaIssue == ImportIssue("Meta", MetadataUrl)

ImportPersistIssue == ImportIssue("Persist", ListUrl)

\* The batch endpoint is disabled by configuration.
ImportBatchSkip ==
    /\ pc = "Batch"
    /\ pc' = "Meta"
    /\ idx' = 1
    /\ PipelineOp("batchSkip")
    /\ UNCHANGED <<bulkImportActive, records, awaiting, added, skipped,
                   exitPath, obsVars>>

\* The awaited call settles; success is the response's status.
ImportAwaitSettle(result, success) ==
    /\ pc \in WaitStages
    /\ IF awaiting # 0
       THEN SettleBody(awaiting, result)
       ELSE /\ result \in {"ok", "error"}
            /\ lastOp' = [Op("settle") EXCEPT !.outcome = result]
            /\ UNCHANGED <<regVars, flagVars, ctrlVars, fetchBeforeStart>>
    /\ Advance(result = "ok" /\ success)

ImportAwaitTimeoutMetaOnly ==
    /\ pc = "MetaWait"
    /\ aborted' = IF awaiting # 0 THEN aborted \cup {awaiting} ELSE aborted
    /\ Advance(FALSE)
    /\ lastOp' = Op("timeout")
    /\ UNCHANGED <<regVars, flagVars, controllers, globalFetchControllers,
                   alive, faulty, pending, fetchBeforeStart>>

\* The awaited call exceeds its time bound: the call is cancelled and the
\* pipeline goes on without its result.
ImportAwaitTimeout ==
    /\ pc \in WaitStages
    /\ aborted' = IF awaiting # 0 THEN aborted \cup {awaiting} ELSE aborted
    /\ Advance(FALSE)
    /\ lastOp' = Op("timeout")
    /\ UNCHANGED <<regVars, flagVars, controllers, globalFetchControllers,
                   alive, faulty, pending, fetchBeforeStart>>

ImportThrowSkipsCleanup ==
    /\ pc \in IssueStages
    /\ pc' = "Idle"
    /\ exitPath' = "error"
    /\ PipelineOp("throw")
    /\ UNCHANGED <<bulkImportActive, records, idx, awaiting, added, skipped,
                   obsVars>>

\* A stage throws: control passes to the cleanup.
ImportThrow ==
    /\ pc \in IssueStages
    /\ pc' = "CleanupFlag"
    /\ exitPath' = "error"
    /\ PipelineOp("throw")
    /\ UNCHANGED <<bulkImportActive, records, idx, awaiting, added, skipped,
                   obsVars>>

CleanupFlagSkipsAbortAll ==
    /\ pc = "CleanupFlag"
    /\ bulkImportActive' = FALSE
    /\ pc' = "CleanupStop"
    /\ PipelineOp("clearFlag")
    /\ lifecycle' = Append(lifecycle, "clearFlag")
    /\ UNCHANGED <<request, persisted, records, idx, awaiting, added,
                   skipped, exitPath>>

\* Cleanup 1: clear the import flag.
CleanupFlag ==
    /\ pc = "CleanupFlag"
    /\ bulkImportActive' = FALSE
    /\ pc' = "CleanupAbort"
    /\ PipelineOp("clearFlag")
    /\ lifecycle' = Append(lifecycle, "clearFlag")
    /\ UNCHANGED <<request, persisted, records, idx, awaiting, added,
                   skipped, exitPath>>

\* Cleanup 2: abortRegistry.abortAll().
CleanupAbort ==
    /\ pc = "CleanupAbort"
    /\ AbortAllBody
    /\ pc' = "CleanupStop"
    /\ lifecycle' = Append(lifecycle, "abortAll")
    /\ UNCHANGED <<request, persisted, bulkImportActive, records, idx,
                   awaiting, added, skipped, exitPath, appVars>>

\* Cleanup 3: abortRegistry.stopGlobalInterception().
CleanupStop ==
    /\ pc = "CleanupStop"
    /\ StopBody
    /\ pc' = "CleanupCaches"
    /\ lifecycle' = Append(lifecycle, "stop")
    /\ UNCHANGED <<request, persisted, bulkImportActive, records, idx,
                   awaiting, added, skipped, exitPath, appVars>>

\* Cleanup 4 and 5: the guarded cache clears, which touch nothing modelled
\* here; the handler returns and its locals are gone.
CleanupCaches ==
    /\ pc = "CleanupCaches"
    /\ pc' = "Idle"
    /\ records' = <<>>
    /\ idx' = 0
    /\ request' = [kind |-> "none", ids |-> {}]
    /\ persisted' = <<>>
    /\ lifecycle' = <<>>
    /\ PipelineOp("clearCaches")
    /\ UNCHANGED <<bulkImportActive, awaiting, added, skipped, exitPath>>

\* A call the pipeline no longer awaits settles.
SettleAbandoned(c, result) ==
    /\ c # awaiting
    /\ SettleCall(c, result)

\* A cancelled call settles: fetch rejects once its signal is aborted.
SettleAborted == \E c \in aborted : SettleAbandoned(c, "abort")

NextImport ==
    \/ \E input \in Inputs : BeginImport(input)
    \/ ImportValidate
    \/ ImportIntercept
    \/ ImportBatchIssue
    \/ ImportBatchSkip
    \/ ImportMetaIssue
    \/ ImportPersistIssue
    \/ \E result \in {"ok", "error", "abort"}, success \in BOOLEAN :
          ImportAwaitSettle(result, success)
    \/ ImportAwaitTimeout
    \/ ImportThrow
    \/ CleanupFlag
    \/ CleanupAbort
    \/ CleanupStop
    \/ CleanupCaches
    \/ \E c \in Ctrl, result \in {"ok", "error", "abort"} :
          SettleAbandoned(c, result)

SpecImport == Init /\ [][NextImport]_vars

\* One step of the running import: the continuation of the handler after an
\* await that is not a network wait, or the expiry of the bound on one that
\* is.  At most one of these is enabled in any state.
PipelineStep ==
    \/ ImportValidate
    \/ ImportIntercept
    \/ ImportBatchIssue
    \/ ImportBatchSkip
    \/ ImportMetaIssue
    \/ ImportPersistIssue
    \/ ImportAwaitTimeout
    \/ CleanupFlag
    \/ CleanupAbort
    \/ CleanupStop
    \/ CleanupCaches

\* The event loop runs every ready continuation and every due timer, and a
\* cancelled request settles.
FairSpecImport ==
    /\ SpecImport
    /\ WF_vars(PipelineStep)
    /\ WF_vars(SettleAborted)

(***************************************************************************)
(* forceAbortAllGlobal and the navbar.                                     *)
(***************************************************************************)
\* The framework caches forceAbortAllGlobal clears, in the order of its try
\* block (lines 363-398).
CacheOrder == <<"prefetchCache", "routerCache", "fetchCache", "promiseQueue">>

Caches == {CacheOrder[k] : k \in 1..Len(CacheOrder)}

\* Targets of the navbar's links.
Hrefs == {"/lists", "/browse"}

\* The caches emptied by one try block that clears those of order one after
\* the other: the first clear() that throws ends the block.
ClearedInTry(order, broken) ==
    {order[k] : k \in {j \in 1..Len(order) :
                          \A i \in 1..j : order[i] \notin broken}}

\* forceAbortAllGlobal(): abortAll(), then the cache clears in one try/catch.
ForceAbortAllGlobalState ==
    /\ AbortAllState
    /\ caches' = caches \ ClearedInTry(CacheOrder, brokenCaches)
    /\ UNCHANGED brokenCaches

ForceAbortAllGlobal ==
    /\ ForceAbortAllGlobalState
    /\ lastOp' = Op("forceAbortAllGlobal")
    /\ UNCHANGED <<bulkImportActive, pipeVars, dataVars,
                   bulkImportJustCompleted,
                   navTimers, location>>

\* handleNavigation(e, href): with an import active or just completed the
\* click is cancelled, forceAbortAllGlobal runs, the prefetch cache is
\* cleared again and a timer is set; otherwise the link's default
\* navigation goes ahead.
NavClick(href) ==
    /\ lastOp' = [Op("navClick") EXCEPT
                     !.href = href,
                     !.outcome = IF bulkImportActive \/ bulkImportJustCompleted
                                 THEN "deferred"
                                 ELSE "default"]
    /\ IF bulkImportActive \/ bulkImportJustCompleted
       THEN /\ AbortAllState
            /\ caches' = (caches \ ClearedInTry(CacheOrder, brokenCaches))
                            \ ClearedInTry(<<"prefetchCache">>, brokenCaches)
            /\ navTimers' = navTimers \cup {href}
            /\ UNCHANGED location
       ELSE /\ location' = href
            /\ UNCHANGED <<regVars, development, disableInterception,
                           ctrlVars, fetchBeforeStart, caches, navTimers>>
    /\ UNCHANGED <<bulkImportActive, pipeVars, dataVars,
                   bulkImportJustCompleted,
                   brokenCaches>>

NavTimerFiresOnlyWhenInactive(href) ==
    /\ href \in navTimers
    /\ navTimers' = navTimers \ {href}
    /\ location' = IF bulkImportActive THEN location ELSE href
    /\ lastOp' = [Op("navTimer") EXCEPT !.href = href]
    /\ UNCHANGED <<regVars, flagVars, ctrlVars, fetchBeforeStart, pipeVars,
                   dataVars,
                   bulkImportJustCompleted, caches, brokenCaches>>

\* The 200 ms timer of handleNavigation: both branches assign
\* window.location.href.
NavTimerFires(href) ==
    /\ href \in navTimers
    /\ navTimers' = navTimers \ {href}
    /\ location' = href
    /\ lastOp' = [Op("navTimer") EXCEPT !.href = href]
    /\ UNCHANGED <<regVars, flagVars, ctrlVars, fetchBeforeStart, pipeVars,
                   dataVars,
                   bulkImportJustCompleted, caches, brokenCaches>>

\* The import handler raises window.__bulkImportJustCompleted or the flag
\* expires.
SetJustCompleted(b) ==
    /\ bulkImportJustCompleted # b
    /\ bulkImportJustCompleted' = b
    /\ lastOp' = Op("setJustCompleted")
    /\ UNCHANGED <<regVars, flagVars, ctrlVars, fetchBeforeStart, pipeVars,
                   dataVars,
                   navTimers, location, caches, brokenCaches>>

\* The framework puts an entry into one of its caches.
FillCache(c) ==
    /\ c \notin caches
    /\ caches' = caches \cup {c}
    /\ lastOp' = Op("fillCache")
    /\ UNCHANGED <<regVars, flagVars, ctrlVars, fetchBeforeStart, pipeVars,
                   dataVars,
                   bulkImportJustCompleted, navTimers, location,
                   brokenCaches>>

\* A framework cache is in a state in which its clear() throws.
BreakCache(c) ==
    /\ c \notin brokenCaches
    /\ brokenCaches' = brokenCaches \cup {c}
    /\ lastOp' = Op("breakCache")
    /\ UNCHANGED <<regVars, flagVars, ctrlVars, fetchBeforeStart, pipeVars,
                   dataVars,
                   bulkImportJustCompleted, navTimers, location, caches>>

\* SpecNav: the navbar on a page whose import handler sets the two flags and
\* whose requests go through the wrapper.
NextNav ==
    \/ StartGlobalInterception
    \/ \E url \in Urls : WrapperCall(url, 0)
    \/ \E c \in Ctrl, result \in {"ok", "error", "abort"} :
          SettleCall(c, result)
    \/ \E b \in BOOLEAN : SetBulkImportActive(b)
    \/ \E b \in BOOLEAN : SetJustCompleted(b)
    \/ \E href \in Hrefs : NavClick(href)
    \/ \E href \in Hrefs : NavTimerFires(href)

SpecNav == Init /\ [][NextNav]_vars

\* A timer that was set fires.
FairSpecNav ==
    /\ SpecNav
    /\ \A href \in Hrefs : WF_vars(NavTimerFires(href))

\* SpecCache: forceAbortAllGlobal with controllers registered by callers and
\* framework caches that fill up and may fail to clear.
NextCache ==
    \/ \E c \in Caches : FillCache(c)
    \/ \E c \in Caches : BreakCache(c)
    \/ ForceAbortAllGlobal
    \/ \E c \in Ctrl, bad \in BOOLEAN : Register(c, bad)

SpecCache == Init /\ [][NextCache]_vars

(***************************************************************************)
(* POST /api/lists/[id]/bulk-import                                        *)
(***************************************************************************)
\* Largest number of urls in one request and in the list.
MaxImport == 2
MaxListLen == 4

\* Largest id crypto.randomUUID() is asked for by a request that starts.
MaxUrlId == 6

\* A position-less url sorts as if its position were this (line 97).
MissingPositionSortKey == 999

\* A url without a position (undefined in the code); real positions are >= 0.
NoPosition == -1

\* The urls of a request body: with a title, without one (the title is then
\* the host name of the url), or without one and with a url that new URL()
\* rejects.
ItemKinds == {"titled", "untitled", "untitledBadUrl"}

Bodies == UNION {[1..n -> ItemKinds] : n \in 0..MaxImport}

\* Lines 72-75: the reduce over the current urls, a missing position
\* counting as 0, starting from -1.
RECURSIVE MaxPosition(_)
MaxPosition(urls) ==
    IF urls = <<>>
    THEN -1
    ELSE LET rest == MaxPosition(SubSeq(urls, 1, Len(urls) - 1))
             u == urls[Len(urls)]
             pos == IF u.position = NoPosition THEN 0 ELSE u.position
         IN  IF pos > rest THEN pos ELSE rest

NewUrlsFromMax(items, maxPosition, firstId) ==
    [k \in 1..Len(items) |->
        [id |-> firstId + k - 1, position |-> maxPosition + k - 1]]

\* Lines 78-93: urls.map((urlData, index) => ...), index counting from 0.
NewUrls(items, maxPosition, firstId) ==
    [k \in 1..Len(items) |->
        [id |-> firstId + k - 1, position |-> maxPosition + 1 + (k - 1)]]

SortKey(u) ==
    IF u.position = NoPosition THEN MissingPositionSortKey ELSE u.position

\* Insert u behind every element whose key is not larger: with this
\* Array.prototype.sort, which is stable, is an insertion sort.
RECURSIVE InsertByPosition(_, _)
InsertByPosition(sorted, u) ==
    IF sorted = <<>>
    THEN <<u>>
    ELSE IF SortKey(sorted[Len(sorted)]) <= SortKey(u)
    THEN Append(sorted, u)
    ELSE Append(InsertByPosition(SubSeq(sorted, 1, Len(sorted) - 1), u),
                sorted[Len(sorted)])

\* Line 96-98: [...].sort((a, b) => (a.position ?? 999) - (b.position ?? 999))
RECURSIVE SortByPosition(_)
SortByPosition(urls) ==
    IF urls = <<>>
    THEN <<>>
    ELSE InsertByPosition(SortByPosition(SubSeq(urls, 1, Len(urls) - 1)),
                          urls[Len(urls)])

RouteStep(name) ==
    /\ lastOp' = Op(name)
    /\ UNCHANGED <<regVars, flagVars, ctrlVars, fetchBeforeStart, pipeVars,
                   navVars, backVars>>

Respond(r, status) ==
    req' = [req EXCEPT ![r].pc = "done", ![r].status = status]

\* Lines 34-52: authentication and the body.
RouteBegin(r, user, body) ==
    /\ req[r].pc = "idle"
    /\ Len(listUrls) + Len(body) <= MaxListLen
    /\ nextUrlId + Len(body) <= MaxUrlId + 1
    /\ req' = [req EXCEPT
                  ![r].items = body,
                  ![r].before = listUrls,
                  ![r].pc = IF ~user \/ body = <<>> THEN "done" ELSE "read",
                  ![r].status = IF ~user THEN 401
                                ELSE IF body = <<>> THEN 400 ELSE 0]
    /\ RouteStep("routeBegin")
    /\ UNCHANGED <<listUrls, nextUrlId>>

\* Lines 55-58: getListById.
RouteRead(r, found) ==
    /\ req[r].pc = "read"
    /\ req' = [req EXCEPT
                  ![r].snapshot = IF found THEN listUrls ELSE <<>>,
                  ![r].pc = IF found THEN "permission" ELSE "done",
                  ![r].status = IF found THEN 0 ELSE 404]
    /\ RouteStep("routeRead")
    /\ UNCHANGED <<listUrls, nextUrlId>>

\* Lines 61-67: requirePermission(listId, user.id, "edit").
RoutePermission(r, allowed) ==
    /\ req[r].pc = "permission"
    /\ req' = [req EXCEPT
                  ![r].pc = IF allowed THEN "write" ELSE "done",
                  ![r].status = IF allowed THEN 0 ELSE 403]
    /\ RouteStep("routePermission")
    /\ UNCHANGED <<listUrls, nextUrlId>>

\* Lines 69-100: the new urls, the sort and the one updateList; new URL()
\* or updateList may throw, which the outer catch turns into a 500.
RouteWrite(r, fails) ==
    /\ req[r].pc = "write"
    /\ LET items == req[r].items
           throws == \E k \in 1..Len(items) : items[k] = "untitledBadUrl"
           newUrls == NewUrls(items, MaxPosition(req[r].snapshot), nextUrlId)
       IN  IF throws \/ fails
           THEN /\ Respond(r, 500)
                /\ UNCHANGED <<listUrls, nextUrlId>>
           ELSE /\ listUrls' = SortByPosition(req[r].snapshot \o newUrls)
                /\ nextUrlId' = nextUrlId + Len(items)
                /\ req' = [req EXCEPT
                              ![r].pc = "activity",
                              ![r].writes = @ + 1,
                              ![r].urlIds =
                                  nextUrlId..(nextUrlId + Len(items) - 1)]
    /\ RouteStep("routeWrite")

\* Lines 103-106: createActivity.
RouteActivity(r, fails) ==
    /\ req[r].pc = "activity"
    /\ IF fails
       THEN Respond(r, 500)
       ELSE req' = [req EXCEPT ![r].pc = "publish",
                               ![r].activities = @ + 1]
    /\ RouteStep("routeActivity")
    /\ UNCHANGED <<listUrls, nextUrlId>>

\* Lines 109-163: the two publishMessage calls awaited together, then the
\* guarded cache invalidation, the unawaited vector sync and the response.
RoutePublish(r, fails) ==
    /\ req[r].pc = "publish"
    /\ req' = [req EXCEPT
                  ![r].pc = "done",
                  ![r].status = IF fails = "none" THEN 200 ELSE 500,
                  ![r].listUpdated =
                      IF fails = "listUpdate" THEN @ ELSE @ + 1,
                  ![r].activityCreated =
                      IF fails = "activity" THEN @ ELSE @ + 1]
    /\ RouteStep("routePublish")
    /\ UNCHANGED <<listUrls, nextUrlId>>

\* The response has gone out.
RouteReturn(r) ==
    /\ req[r].pc = "done"
    /\ req' = [req EXCEPT ![r] = IdleRequest]
    /\ RouteStep("routeReturn")
    /\ UNCHANGED <<listUrls, nextUrlId>>

\* Another route adds a url: at position urls.length, or, as older data,
\* without a position.
AddUrlElsewhere(positioned) ==
    /\ Len(listUrls) < MaxListLen
    /\ listUrls' = Append(listUrls,
                          [id |-> nextUrlId,
                           position |-> IF positioned THEN Len(listUrls)
                                        ELSE NoPosition])
    /\ nextUrlId' = nextUrlId + 1
    /\ RouteStep("addUrl")
    /\ UNCHANGED req

\* SpecRoute: the server handles one bulk-import request at a time, and the
\* list changes otherwise only between requests.
NoRequestRunning == \A r \in Reqs : req[r].pc = "idle"

NextRoute ==
    \/ \E r \in Reqs, user \in BOOLEAN, body \in Bodies :
          NoRequestRunning /\ RouteBegin(r, user, body)
    \/ \E r \in Reqs, found \in BOOLEAN : RouteRead(r, found)
    \/ \E r \in Reqs, allowed \in BOOLEAN : RoutePermission(r, allowed)
    \/ \E r \in Reqs, fails \in BOOLEAN : RouteWrite(r, fails)
    \/ \E r \in Reqs, fails \in BOOLEAN : RouteActivity(r, fails)
    \/ \E r \in Reqs, fails \in {"none", "listUpdate", "activity"} :
          RoutePublish(r, fails)
    \/ \E r \in Reqs : RouteReturn(r)
    \/ \E positioned \in BOOLEAN :
          NoRequestRunning /\ AddUrlElsewhere(positioned)

SpecRoute == Init /\ [][NextRoute]_vars

\* SpecRouteConcurrent: the server handles requests as they arrive, each
\* await a point where another request's step may run.  The requests are
\* the ones that succeed: authenticated editors of an existing list, urls
\* with titles, no failing service.
TitledBodies ==
    {body \in Bodies :
        body # <<>> /\ \A k \in 1..Len(body) : body[k] = "titled"}

NextRouteConcurrent ==
    \/ \E r \in Reqs, body \in TitledBodies : RouteBegin(r, TRUE, body)
    \/ \E r \in Reqs : RouteRead(r, TRUE)
    \/ \E r \in Reqs : RoutePermission(r, TRUE)
    \/ \E r \in Reqs : RouteWrite(r, FALSE)
    \/ \E r \in Reqs : RouteActivity(r, FALSE)
    \/ \E r \in Reqs : RoutePublish(r, "none")
    \/ \E r \in Reqs : RouteReturn(r)

SpecRouteConcurrent == Init /\ [][NextRouteConcurrent]_vars

(***************************************************************************)
(* Sessions (src/src/lib/auth.ts).  Time is counted in seconds; a token is *)
(* the id of its session row.                                              *)
(***************************************************************************)
\* Session rows ever created, and advances of the clock.
MaxSessions == 4
MaxTicks == 2

Users == {"u1", "u2"}

\* expiresAt = Date.now() + 30 * 24 * 60 * 60 * 1000 ms
ThirtyDays == 30 * 24 * 60 * 60

\* sevenDaysAgo = now - 7 * 24 * 60 * 60 * 1000 ms
SevenDays == 7 * 24 * 60 * 60

\* CACHE_TTL = 1000 ms
CACHE_TTL == 1

\* keepCount of the cleanup after a login, after a sign-out, and the
\* slice(0, 3) of the global cleanup.
KeepOnLogin == 3
KeepOnSignOut == 2
KeepGlobal == 3

\* prisma.session.create: lastActivityAt defaults to the creation time.
SessionRow(id, u, t) ==
    [id |-> id, user |-> u, expiresAt |-> t + ThirtyDays,
     lastActivityAt |-> t]

Ids(S) == {s.id : s \in S}

OfUser(S, u) == {s \in S : s.user = u}

\* where: { expiresAt: { gte: now } } and { expiresAt: { lt: now } }
Unexpired(S, t) == {s \in S : s.expiresAt >= t}

Expired(S, t) == {s \in S : s.expiresAt < t}

\* filter((s) => new Date(s.lastActivityAt) >= sevenDaysAgo)
RecentActive(S, t) == {s \in S : s.lastActivityAt >= t - SevenDays}

MostRecentOneMore(recent, k) ==
    {K \in SUBSET recent :
        /\ Cardinality(K) = IF Cardinality(recent) < k + 1
                            THEN Cardinality(recent) ELSE k + 1
        /\ \A a \in K, b \in recent \ K :
              a.lastActivityAt >= b.lastActivityAt}

\* slice(0, k) of the sessions ordered by lastActivityAt, latest first: the
\* order of rows with equal lastActivityAt is the database's choice.
MostRecent(recent, k) ==
    {K \in SUBSET recent :
        /\ Cardinality(K) = IF Cardinality(recent) < k
                            THEN Cardinality(recent) ELSE k
        /\ \A a \in K, b \in recent \ K :
              a.lastActivityAt >= b.lastActivityAt}

\* The sessionsToDelete a cleanup may compute for user u from the rows S.
PlanFor(S, u, t, k) ==
    LET all == Unexpired(OfUser(S, u), t)
    IN  {Ids(all \ K) : K \in MostRecent(RecentActive(all, t), k)}

AuthStep(op) ==
    /\ lastOp' = op
    /\ UNCHANGED nonAuthVars

StartedCleanup(u, k, own, seen) ==
    [IdleJob EXCEPT !.pc = "read", !.kind = "user", !.user = u, !.keep = k,
                    !.now = clock, !.own = own, !.seen = seen]

\* createSession(userId): the row, then the cleanup it does not await.
CreateSession(u, j) ==
    /\ nextSession <= MaxSessions
    /\ jobs[j].pc = "idle"
    /\ LET rows == sessions \cup {SessionRow(nextSession, u, clock)}
       IN  /\ sessions' = rows
           /\ jobs' = [jobs EXCEPT
                         ![j] = StartedCleanup(u, KeepOnLogin, nextSession,
                                               rows)]
    /\ nextSession' = nextSession + 1
    /\ AuthStep([Op("createSession") EXCEPT !.token = nextSession])
    /\ UNCHANGED <<clock, ticks, sessionCache, touches>>

\* cleanupExpiredSessions(), which one login in ten starts.
CleanupExpiredSessions ==
    /\ nextSession > 1
    /\ Expired(sessions, clock) # {}
    /\ sessions' = Unexpired(sessions, clock)
    /\ AuthStep(Op("session"))
    /\ UNCHANGED <<nextSession, clock, ticks, sessionCache, jobs, touches>>

\* cleanupOldSessionsForUser, lines 70-102: the first findMany and the ids
\* computed from it.
CleanupRead(j) ==
    /\ jobs[j].pc = "read"
    /\ \E del \in PlanFor(sessions, jobs[j].user, jobs[j].now, jobs[j].keep) :
          jobs' = [jobs EXCEPT ![j].toDelete = del,
                               ![j].pc = "readExpired"]
    /\ AuthStep(Op("session"))
    /\ UNCHANGED <<sessions, nextSession, clock, ticks, sessionCache,
                   touches>>

\* Lines 104-120: the second findMany.
CleanupReadExpired(j) ==
    /\ jobs[j].pc = "readExpired"
    /\ jobs' = [jobs EXCEPT
                  ![j].toDelete =
                      @ \cup Ids(Expired(OfUser(sessions, jobs[j].user),
                                         jobs[j].now)),
                  ![j].pc = "delete"]
    /\ AuthStep(Op("session"))
    /\ UNCHANGED <<sessions, nextSession, clock, ticks, sessionCache,
                   touches>>

\* Lines 122-136: the deleteMany.
CleanupDelete(j) ==
    /\ jobs[j].pc = "delete"
    /\ sessions' = {s \in sessions : s.id \notin jobs[j].toDelete}
    /\ jobs' = [jobs EXCEPT ![j].pc = "done"]
    /\ AuthStep(Op("session"))
    /\ UNCHANGED <<nextSession, clock, ticks, sessionCache, touches>>

\* A database call of a cleanup rejects; the catch logs it and returns.
CleanupFail(j) ==
    /\ jobs[j].pc \in {"read", "readExpired", "delete", "gExpired", "gRead",
                       "gDelete"}
    /\ jobs' = [jobs EXCEPT ![j].pc = "failed"]
    /\ AuthStep(Op("session"))
    /\ UNCHANGED <<sessions, nextSession, clock, ticks, sessionCache,
                   touches>>

JobReturn(j) ==
    /\ jobs[j].pc \in {"done", "failed"}
    /\ jobs' = [jobs EXCEPT ![j] = IdleJob]
    /\ AuthStep(Op("session"))
    /\ UNCHANGED <<sessions, nextSession, clock, ticks, sessionCache,
                   touches>>

\* globalSessionCleanup, called by POST /api/jobs/cleanup-sessions.
GlobalStart(j) ==
    /\ jobs[j].pc = "idle"
    /\ sessions # {}
    /\ jobs' = [jobs EXCEPT
                  ![j] = [IdleJob EXCEPT !.pc = "gExpired", !.kind = "global",
                                         !.keep = KeepGlobal, !.now = clock,
                                         !.seen = sessions]]
    /\ AuthStep(Op("session"))
    /\ UNCHANGED <<sessions, nextSession, clock, ticks, sessionCache,
                   touches>>

\* Lines 360-368: the deleteMany of the expired rows.
GlobalDeleteExpired(j) ==
    /\ jobs[j].pc = "gExpired"
    /\ sessions' = Unexpired(sessions, jobs[j].now)
    /\ jobs' = [jobs EXCEPT ![j].pc = "gRead"]
    /\ AuthStep(Op("session"))
    /\ UNCHANGED <<nextSession, clock, ticks, sessionCache, touches>>

\* Lines 370-415: the findMany, the grouping by user and each user's ids.
GlobalRead(j) ==
    /\ jobs[j].pc = "gRead"
    /\ LET active == Unexpired(sessions, jobs[j].now)
           users == {s.user : s \in active}
       IN  \E del \in [users -> SUBSET Ids(active)] :
              /\ \A u \in users :
                    del[u] \in PlanFor(active, u, jobs[j].now, jobs[j].keep)
              /\ LET plan == {[user |-> u, ids |-> del[u]] :
                                 u \in {v \in users : del[v] # {}}}
                 IN  jobs' = [jobs EXCEPT
                                ![j].plan = plan,
                                ![j].pc = IF plan = {} THEN "done"
                                          ELSE "gDelete"]
    /\ AuthStep(Op("session"))
    /\ UNCHANGED <<sessions, nextSession, clock, ticks, sessionCache,
                   touches>>

\* Lines 416-426: one user's deleteMany.
GlobalDeleteNext(j) ==
    /\ jobs[j].pc = "gDelete"
    /\ \E e \in jobs[j].plan :
          /\ sessions' = {s \in sessions : s.id \notin e.ids}
          /\ jobs' = [jobs EXCEPT
                        ![j].plan = @ \ {e},
                        ![j].pc = IF jobs[j].plan = {e} THEN "done"
                                  ELSE "gDelete"]
    /\ AuthStep(Op("session"))
    /\ UNCHANGED <<nextSession, clock, ticks, sessionCache, touches>>

\* getCurrentSession() of a request whose cookie holds tok: what it
\* returns and what it leaves in the table, the cache and the updates.
CurrentSession(tok) ==
    LET hit == /\ sessionCache # NoCache
               /\ sessionCache.token = tok
               /\ clock - sessionCache.timestamp < CACHE_TTL
        rows == {s \in sessions : s.id = tok}
        valid == rows # {} /\ \A s \in rows : ~(s.expiresAt < clock)
        found == [id |-> tok, user |-> (CHOOSE s \in rows : TRUE).user]
    IN  IF hit
        THEN [result |-> sessionCache.session, sessions |-> sessions,
              cache |-> sessionCache, touches |-> touches]
        ELSE IF ~valid
        THEN [result |-> NoSession, sessions |-> sessions \ rows,
              cache |-> [token |-> tok, session |-> NoSession,
                         timestamp |-> clock],
              touches |-> touches]
        ELSE [result |-> found, sessions |-> sessions,
              cache |-> [token |-> tok, session |-> found,
                         timestamp |-> clock],
              touches |-> touches \cup {[token |-> tok, at |-> clock]}]

GetCurrentSession(tok) ==
    /\ tok < nextSession
    /\ LET r == CurrentSession(tok)
       IN  /\ sessions' = r.sessions
           /\ sessionCache' = r.cache
           /\ touches' = r.touches
           /\ AuthStep([Op("getCurrentSession") EXCEPT
                           !.token = tok, !.result = r.result.id])
    /\ UNCHANGED <<nextSession, clock, ticks, jobs>>

\* The prisma.session.update of lines 216-224 reaches the database.
TouchLands(t) ==
    /\ t \in touches
    /\ touches' = touches \ {t}
    /\ sessions' = {IF s.id = t.token
                    THEN [s EXCEPT !.lastActivityAt = t.at] ELSE s :
                       s \in sessions}
    /\ AuthStep(Op("session"))
    /\ UNCHANGED <<nextSession, clock, ticks, sessionCache, jobs>>

\* deleteSession(token)
DeleteSession(tok) ==
    /\ tok < nextSession
    /\ sessions' = {s \in sessions : s.id # tok}
    /\ AuthStep([Op("deleteSession") EXCEPT !.token = tok])
    /\ UNCHANGED <<nextSession, clock, ticks, sessionCache, jobs, touches>>

\* signOut(deleteAllDevices) of a request whose cookie holds tok.
SignOut(tok, deleteAllDevices, j) ==
    /\ tok < nextSession
    /\ jobs[j].pc = "idle"
    /\ LET r == CurrentSession(tok)
           rest == {s \in r.sessions : s.id # r.result.id}
       IN  /\ sessionCache' = r.cache
           /\ touches' = r.touches
           /\ IF r.result = NoSession
              THEN /\ sessions' = r.sessions
                   /\ UNCHANGED jobs
              ELSE IF deleteAllDevices
              THEN /\ sessions' =
                        {s \in r.sessions : s.user # r.result.user}
                   /\ UNCHANGED jobs
              ELSE /\ sessions' = rest
                   /\ jobs' = [jobs EXCEPT
                                 ![j] = StartedCleanup(r.result.user,
                                                       KeepOnSignOut, 0,
                                                       rest)]
    /\ AuthStep([Op("signOut") EXCEPT !.token = tok])
    /\ UNCHANGED <<nextSession, clock, ticks>>

\* Time passes.
Tick(d) ==
    /\ ticks < MaxTicks
    /\ clock' = clock + d
    /\ ticks' = ticks + 1
    /\ AuthStep(Op("session"))
    /\ UNCHANGED <<sessions, nextSession, sessionCache, jobs, touches>>

NoJobRunning == \A j \in Jobs : jobs[j].pc = "idle"

Tokens == 1..MaxSessions

\* The server has no window: the registry is not constructed there.
InitServer == Init /\ windowFetch = NativeFetch /\ ~development

\* SpecCleanup: the session table while at most one cleanup runs and
\* nothing else touches the table until that cleanup has returned.  One
\* user logs in on many devices and keeps using the first; the other user
\* has one device.
NextCleanup ==
    \/ /\ NoJobRunning
       /\ touches = {}
       /\ \/ CreateSession("u1", "j1")
          \/ OfUser(sessions, "u2") = {} /\ CreateSession("u2", "j1")
          \/ \E tok \in Tokens : SignOut(tok, FALSE, "j1")
          \/ GlobalStart("j1")
    \/ /\ NoJobRunning
       /\ \/ touches = {} /\ GetCurrentSession(1)
          \/ \E t \in touches : TouchLands(t)
          \/ Tick(ThirtyDays)
          \/ CleanupExpiredSessions
    \/ \E j \in Jobs : CleanupRead(j)
    \/ \E j \in Jobs : CleanupReadExpired(j)
    \/ \E j \in Jobs : CleanupDelete(j)
    \/ \E j \in Jobs : GlobalDeleteExpired(j)
    \/ \E j \in Jobs : GlobalRead(j)
    \/ \E j \in Jobs : GlobalDeleteNext(j)
    \/ \E j \in Jobs : CleanupFail(j)
    \/ \E j \in Jobs : JobReturn(j)

SpecCleanup == InitServer /\ [][NextCleanup]_vars

\* SpecAuth: requests that read, end and create sessions of one user, who
\* is signed in on one device at a time, so that a row leaves the table
\* only through deleteSession, signOut or its expiry; a request reads the
\* session when the lastActivityAt update of the one before has been
\* applied.
NextAuth ==
    \/ sessions = {} /\ CreateSession("u1", "j1")
    \/ \E tok \in Tokens : touches = {} /\ GetCurrentSession(tok)
    \/ \E tok \in Tokens : DeleteSession(tok)
    \/ \E tok \in Tokens, deleteAllDevices \in BOOLEAN :
          touches = {} /\ SignOut(tok, deleteAllDevices, "j1")
    \/ \E t \in touches : TouchLands(t)
    \/ \E d \in {CACHE_TTL, ThirtyDays} : Tick(d)
    \/ \E j \in Jobs : CleanupRead(j)
    \/ \E j \in Jobs : CleanupReadExpired(j)
    \/ \E j \in Jobs : CleanupDelete(j)
    \/ \E j \in Jobs : JobReturn(j)

SpecAuth == InitServer /\ [][NextAuth]_vars

\* SpecLogin: logins of one user on several devices, the cleanups they
\* start running concurrently with each other and with the requests of
\* the device that signed in first.
NextLogin ==
    \/ \E j \in Jobs : CreateSession("u1", j)
    \/ touches = {} /\ GetCurrentSession(1)
    \/ \E t \in touches : TouchLands(t)
    \/ Tick(CACHE_TTL)
    \/ \E j \in Jobs : CleanupRead(j)
    \/ \E j \in Jobs : CleanupReadExpired(j)
    \/ \E j \in Jobs : CleanupDelete(j)
    \/ \E j \in Jobs : JobReturn(j)

SpecLogin == InitServer /\ [][NextLogin]_vars

(***************************************************************************)
(* Properties of the interception controller and the request tracker.      *)
(***************************************************************************)
RegistryFields ==
    <<originalFetch, permanentOriginalFetch, nativeFetchBackup,
      isIntercepting, controllers, globalFetchControllers>>

\* C2: under any sequence of start and stop calls, right after a
\* stopGlobalInterception that has a start before it, window.fetch is the
\* very function that was installed when that start took effect.
C2_StopRestoresPreStartFetch ==
    (lastOp.op = "stop" /\ fetchBeforeStart # Null)
        => windowFetch = fetchBeforeStart

\* A second stop in a row, after a start that found a patched fetch.
C2_Witness ==
    /\ lastOp.op = "stop"
    /\ ~isIntercepting
    /\ fetchBeforeStart = OtherFetch
    /\ windowFetch = OtherFetch
    /\ pending # {}

\* C3: the wrapper never delegates to a wrapper (one layer at most), and a
\* startGlobalInterception issued while interception is on changes nothing.
C3_SingleWrapperLayer ==
    /\ [](~IsWrapperFn(originalFetch))
    /\ [][(lastOp'.op = "start" /\ isIntercepting)
             => UNCHANGED <<windowFetch, RegistryFields>>]_vars

\* A start that found a wrapper in window.fetch while interception was off.
C3_Witness ==
    /\ lastOp.op = "start"
    /\ IsWrapperFn(fetchBeforeStart)
    /\ windowFetch = Wrapper
    /\ ~IsWrapperFn(originalFetch)

\* C4: getCount() is 0 right after abortAll(), and the completion handlers
\* of calls that settle afterwards (the wrapper's finally, trackedFetch's
\* unregister) leave it at 0.
C4_AbortAllEmptiesCount ==
    /\ [](lastOp.op = "abortAll" => GetCount = 0)
    /\ [][(GetCount = 0 /\ lastOp'.op \in {"settle", "unregister"})
             => GetCount' = 0]_vars

\* abortAll ran over registered and intercepted controllers at once and
\* left the intercepted calls in flight.
C4_Witness ==
    /\ lastOp.op = "abortAll"
    /\ lastOp.registeredCount > 0
    /\ lastOp.interceptedCount > 0
    /\ pending # {}
    /\ GetCount = 0

\* C6: abortAll() never throws, empties both collections, and leaves the
\* signal of every working controller that was in either of them aborted,
\* also when some were aborted before or are objects whose abort() throws.
C6_AbortAllAbortsEveryController ==
    [][lastOp'.op = "abortAll"
          => /\ ~lastOp'.threw
             /\ controllers' = {}
             /\ globalFetchControllers' = {}
             /\ \A c \in controllers \cup MapValues(globalFetchControllers) :
                   c \in faulty \/ c \in aborted']_vars

\* abortAll ran over every controller in existence, one of which throws on
\* abort() and one of which is aborted.
C6_Witness ==
    /\ lastOp.op = "abortAll"
    /\ lastOp.registeredCount + lastOp.interceptedCount = Cardinality(alive)
    /\ Cardinality(alive) > 1
    /\ faulty # {}
    /\ aborted # {}

\* C7: a stopGlobalInterception issued while interception is off leaves
\* window.fetch and every field of the registry as they were.
C7_StopWhenInactiveIsNoOp ==
    [][(lastOp'.op = "stop" /\ ~isIntercepting)
          => UNCHANGED <<windowFetch, RegistryFields>>]_vars

C9_InactiveCallPassesThrough ==
    [][(lastOp'.op = "call" /\ ~bulkImportActive)
          => /\ lastOp'.target = originalFetch
             /\ UNCHANGED ctrlVars]_vars

\* A pass-through call through a stale reference, with entries in the map.
C9_Witness ==
    /\ lastOp.op = "call"
    /\ ~bulkImportActive
    /\ ~isIntercepting
    /\ ~IsWrapperFn(windowFetch)
    /\ globalFetchControllers # {}

\* C10: an intercepted call is entered in the map under a key no other call
\* in flight has; every map entry belongs to a call still in flight, so it
\* is gone once its call settled (ok, error or abort), and the map is empty
\* when no intercepted call is in flight.
C10_InterceptedCallsTrackedUntilSettled ==
    /\ [](\A p \in pending, q \in pending : p.key = q.key => p = q)
    /\ [](\A e \in globalFetchControllers :
             \E p \in pending : p.key = e.key /\ p.ctrl = e.ctrl)
    /\ [](pending = {} => globalFetchControllers = {})
    /\ [][(lastOp'.op = "call" /\ bulkImportActive /\ ~disableInterception)
             => \E p \in pending' \ pending :
                   [key |-> p.key, ctrl |-> p.ctrl]
                       \in globalFetchControllers']_vars
    /\ [][lastOp'.op = "settle"
             => \A p \in pending \ pending' :
                   \A e \in globalFetchControllers' : e.key # p.key]_vars

\* An aborted call settled while another call to the same url is in flight.
C10_Witness ==
    /\ lastOp.op = "settle"
    /\ lastOp.outcome = "abort"
    /\ pending # {}
    /\ globalFetchControllers # {}

(***************************************************************************)
(* Properties of the import pipeline.                                      *)
(***************************************************************************)
\* C1: whenever no import is running (before the first one and after each
\* one has ended, on any path), window.__bulkImportActive is false.
C1_FlagClearedAfterImport ==
    pc = "Idle" => ~bulkImportActive

\* An import that ended through the failure path.
C1_Witness ==
    /\ pc = "Idle"
    /\ exitPath = "error"
    /\ lastOp.op = "clearCaches"
    /\ ~bulkImportActive

C11_MergedSignalCancels ==
    /\ [](\A p \in pending :
             (p.listener # 0 /\ p.listener \in aborted) => p.ctrl \in aborted)
    /\ [][lastOp'.op = "abortAll"
             => \A p \in pending : p.ctrl \in aborted']_vars
    /\ [][(lastOp'.op = "call" /\ lastOp'.signal # 0
              /\ lastOp'.signal \in aborted)
             => \A p \in pending' \ pending : p.ctrl \in aborted']_vars

\* The caller aborted its signal after abortAll had emptied the map, with
\* the call made on that signal still in flight.
C11_Witness ==
    /\ lastOp.op = "callerAbort"
    /\ globalFetchControllers = {}
    /\ \E p \in pending : p.listener # 0 /\ p.listener \in aborted

(***************************************************************************)
(* The sequential fallback, validation and the order of the life cycle.    *)
(***************************************************************************)
RecordIds(recs) == [k \in 1..Len(recs) |-> recs[k].id]

IsPrefix(a, b) ==
    /\ Len(a) <= Len(b)
    /\ \A k \in 1..Len(a) : a[k] = b[k]

\* C12: the fallback issues the persistence calls one per record in input
\* order: the calls issued so far are those of the first records, a fallback
\* that ran to its end issued one for every valid record, the calls of
\* record k are issued only when exactly k-1 persistence calls went before,
\* and when a per-record call is issued no earlier call is still in flight
\* uncancelled.
C12_FallbackPersistsEachRecordInOrder ==
    /\ [](IsPrefix(persisted, RecordIds(records)))
    /\ []((pc = "CleanupFlag" /\ exitPath = "fallback")
             => persisted = RecordIds(records))
    /\ [](pc \in {"Meta", "MetaWait", "Persist"} => Len(persisted) = idx - 1)
    /\ [](pc = "PersistWait" => Len(persisted) = idx)
    /\ [][(request' # request /\ request'.kind \in {"Meta", "Persist"})
             => \A p \in pending : p.ctrl \in aborted]_vars

\* The fallback ended after a failed batch attempt with two records, the
\* first of which had its persistence call cut off.
C12_Witness ==
    /\ pc = "CleanupFlag"
    /\ exitPath = "fallback"
    /\ Len(persisted) = MaxRecords
    /\ skipped > 0
    /\ pending # {}

\* C13: every outgoing request of the import carries only records that
\* passed validation; validation keeps exactly the valid records, and an
\* import that ended through the batch path sent and added all of them.
C13_InvalidRecordsNeverSent ==
    /\ [](\A id \in request.ids :
             \E k \in 1..Len(records) :
                records[k].id = id /\ records[k].valid)
    /\ [][(pc = "Validating" /\ pc' = "Intercept")
             => /\ {r.id : r \in {records'[k] : k \in 1..Len(records')}}
                   = {r.id : r \in {q \in {records[k] : k \in 1..Len(records)}
                                       : q.valid}}
                /\ skipped' = Len(records) - Len(records')]_vars
    /\ []((pc = "CleanupFlag" /\ exitPath = "batch")
             => /\ request = RequestOf("Batch", records, idx)
                /\ added = Len(records))

\* A batch request went out for an input with a valid and an invalid record.
C13_Witness ==
    /\ request.kind = "Batch"
    /\ request.ids # {}
    /\ skipped > 0
    /\ pc = "BatchWait"

\* C14: the end of a metadata call, whatever its result, leads to the
\* persistence call of the same record; the end of a persistence call counts
\* the record as added or, on failure, timeout or cancellation, as skipped,
\* and leads to the next record or, after the last, to cleanup through the
\* fallback exit, never through the error exit.
C14_FallbackRecordFailureDoesNotStopLoop ==
    /\ [][(pc = "MetaWait" /\ pc' # pc)
             => /\ pc' = "Persist"
                /\ idx' = idx
                /\ added' = added
                /\ skipped' = skipped]_vars
    /\ [][(pc = "PersistWait" /\ pc' # pc)
             => /\ exitPath' # "error"
                /\ IF lastOp'.op = "settle" /\ lastOp'.outcome = "ok"
                   THEN added' + skipped' = added + skipped + 1
                   ELSE added' = added /\ skipped' = skipped + 1
                /\ IF idx < Len(records)
                   THEN pc' = "Meta" /\ idx' = idx + 1
                   ELSE pc' = "CleanupFlag" /\ exitPath' = "fallback"]_vars

\* The loop is at the second record after the first record's metadata call
\* and persistence call both failed.
C14_Witness ==
    /\ pc = "Meta"
    /\ idx = MaxRecords
    /\ skipped = MaxRecords - 1
    /\ added = 0
    /\ Len(records) = MaxRecords
    /\ lastOp.op \in {"settle", "timeout"}

LifecycleOrder == <<"start", "clearFlag", "abortAll", "stop">>

\* C15: the lifecycle calls of an import occur in the order
\* startGlobalInterception, flag cleared, abortAll, stopGlobalInterception,
\* and an import that has stopped interception has made all four.
C15_LifecycleOrder ==
    /\ IsPrefix(lifecycle, LifecycleOrder)
    /\ pc = "CleanupCaches" => lifecycle = LifecycleOrder
    /\ pc \in AfterStartStages => lifecycle[1] = "start"

\* Cleanup after a thrown error has made the four calls.
C15_Witness ==
    /\ pc = "CleanupCaches"
    /\ exitPath = "error"
    /\ lifecycle = LifecycleOrder
    /\ lastOp.op = "stop"

(***************************************************************************)
(* Who assigns window.fetch and the saved references.                      *)
(***************************************************************************)
\* C17 as stated: window.fetch is changed (by anything but the page's other
\* code) only by startGlobalInterception and stopGlobalInterception, and
\* only while window.__bulkImportActive is true.
C17_FetchChangedOnlyByStartStopWhileActive ==
    [][(windowFetch' # windowFetch /\ lastOp'.op # "envInstall")
          => /\ lastOp'.op \in {"start", "stop"}
             /\ bulkImportActive]_vars

\* C17 amended: the registry changes window.fetch only in
\* startGlobalInterception, stopGlobalInterception and
\* forceRestoreNativeFetch, whatever the import flag, and of the three only
\* startGlobalInterception leaves a wrapper in it.
C17_FetchChangedOnlyByRegistryLifecycle ==
    [][(windowFetch' # windowFetch /\ lastOp'.op # "envInstall")
          => /\ lastOp'.op \in {"start", "stop", "forceRestore"}
             /\ IsWrapperFn(windowFetch') <=> lastOp'.op = "start"]_vars

\* forceRestoreNativeFetch has taken the wrapper out of window.fetch while
\* interception was on and the import flag was false.
C17_Witness ==
    /\ lastOp.op = "forceRestore"
    /\ isIntercepting
    /\ ~bulkImportActive
    /\ windowFetch = nativeFetchBackup
    /\ originalFetch = nativeFetchBackup

\* C20 as stated: once captured, originalFetch is never overwritten.
C20_OriginalFetchWriteOnce ==
    [][originalFetch # Null => originalFetch' = originalFetch]_vars

\* C20 amended: once captured, originalFetch is overwritten neither by
\* stopGlobalInterception nor by a startGlobalInterception made while
\* interception is on; it changes only when a startGlobalInterception made
\* while interception is off captures window.fetch again or when
\* forceRestoreNativeFetch puts the native backup in it.  The permanent
\* backup is never overwritten.
C20_OriginalFetchOverwrittenOnlyByCapture ==
    /\ [][(originalFetch # Null /\ originalFetch' # originalFetch)
             => \/ lastOp'.op = "start" /\ ~isIntercepting
                \/ /\ lastOp'.op = "forceRestore"
                   /\ originalFetch' = nativeFetchBackup]_vars
    /\ [][permanentOriginalFetch # Null
             => permanentOriginalFetch' = permanentOriginalFetch]_vars

\* A stop after a second start that had captured another function than the
\* first: originalFetch differs from the permanent backup.
C20_Witness ==
    /\ lastOp.op = "stop"
    /\ originalFetch # Null
    /\ permanentOriginalFetch # Null
    /\ originalFetch # permanentOriginalFetch
    /\ windowFetch = originalFetch

(***************************************************************************)
(* Navigation during an import and the cache clears.                       *)
(***************************************************************************)
\* C16: a navbar click made while window.__bulkImportActive or
\* window.__bulkImportJustCompleted is true runs forceAbortAllGlobal at once
\* (every working tracked controller aborted, getCount() at 0) and sets the
\* timer of its target, and every timer that was set leads to
\* window.location.href being its target, whether or not the import is
\* still active by then.
C16_BlockedNavigationGoesThrough ==
    /\ [][(lastOp'.op = "navClick"
              /\ (bulkImportActive \/ bulkImportJustCompleted))
             => /\ GetCount' = 0
                /\ (controllers \cup MapValues(globalFetchControllers))
                      \ faulty \subseteq aborted'
                /\ lastOp'.href \in navTimers'
                /\ location' = location]_vars
    /\ \A href \in Hrefs : (href \in navTimers) ~> (location = href)

\* The timer has navigated while the import was still active and new
\* intercepted calls had been made since the click.
C16_Witness ==
    /\ lastOp.op = "navTimer"
    /\ bulkImportActive
    /\ location = lastOp.href
    /\ globalFetchControllers # {}
    /\ aborted # {}

\* C18: forceAbortAllGlobal does not throw and leaves no cache uncleared
\* whose clear() works, whichever other caches fail to clear.
C18_EachCacheClearGuarded ==
    [][lastOp'.op = "forceAbortAllGlobal"
          => /\ ~lastOp'.threw
             /\ caches' \subseteq brokenCaches]_vars


IndexOfId(urls, id) == CHOOSE k \in 1..Len(urls) : urls[k].id = id

\* C19: a bulk-import request answered with success wrote the list once,
\* created one activity record and published one list_updated message,
\* however many urls it carried; its write kept every existing url, added
\* exactly the N new urls, gave them increasing positions in input order,
\* each above every position an existing url has, and left them in input
\* order in the list.
C19_BulkImportWritesOnce ==
    /\ [](\A r \in Reqs :
            req[r].status = 200
                => /\ Len(req[r].items) >= 1
                   /\ req[r].writes = 1
                   /\ req[r].activities = 1
                   /\ req[r].listUpdated = 1)
    /\ [][\A r \in Reqs :
            req'[r].writes > req[r].writes
                => LET n == Len(req[r].items)
                       newIds == nextUrlId..(nextUrlId + n - 1)
                       at(id) == listUrls'[IndexOfId(listUrls', id)]
                   IN  /\ req'[r].writes = req[r].writes + 1
                       /\ Len(listUrls') = Len(listUrls) + n
                       /\ \A k \in 1..Len(listUrls) :
                             \E j \in 1..Len(listUrls') :
                                listUrls'[j] = listUrls[k]
                       /\ \A id \in newIds :
                             /\ \E j \in 1..Len(listUrls') :
                                   listUrls'[j].id = id
                             /\ at(id).position # NoPosition
                             /\ \A k \in 1..Len(listUrls) :
                                   listUrls[k].position # NoPosition
                                      => at(id).position
                                            > listUrls[k].position
                       /\ \A a, b \in newIds :
                             a < b
                                => /\ at(a).position < at(b).position
                                   /\ IndexOfId(listUrls', a)
                                         < IndexOfId(listUrls', b)]_vars

\* A request with the most urls succeeded on a list that held a url with a
\* position and a url without one.
C19_Witness ==
    \E r \in Reqs :
        /\ req[r].status = 200
        /\ Len(req[r].items) = MaxImport
        /\ \E k \in 1..Len(req[r].snapshot) :
              req[r].snapshot[k].position = NoPosition
        /\ \E k \in 1..Len(req[r].snapshot) :
              req[r].snapshot[k].position # NoPosition


\* C21: permanentOriginalFetch is assigned at most once, nativeFetchBackup
\* is never reassigned after construction, and permanentOriginalFetch never
\* holds a wrapper, also when the first startGlobalInterception finds the
\* global fetch already wrapped.
C21_PermanentBackupIsTrueOriginal ==
    /\ [][permanentOriginalFetch # Null
             => permanentOriginalFetch' = permanentOriginalFetch]_vars
    /\ [][nativeFetchBackup' = nativeFetchBackup]_vars
    /\ [](~IsWrapperFn(permanentOriginalFetch))


\* C24: isIntercepting is true exactly when window.fetch is the registry's
\* wrapper, whatever sequence of startGlobalInterception,
\* stopGlobalInterception and forceRestoreNativeFetch ran; so a
\* startGlobalInterception made while no wrapper is installed installs one.
C24_InterceptingIffWrapped ==
    /\ [](isIntercepting <=> IsWrapperFn(windowFetch))
    /\ [][(lastOp'.op = "start" /\ ~IsWrapperFn(windowFetch))
             => IsWrapperFn(windowFetch')]_vars


\* C25: when the bulk-import route answers 400, 401, 403, 404 or 500, the
\* stored urls of the list are what they were when the request arrived and
\* the request created no activity record.
C25_FailedRequestLeavesListUntouched ==
    \A r \in Reqs :
        req[r].status \in {400, 401, 403, 404, 500}
            => /\ listUrls = req[r].before
               /\ req[r].activities = 0


\* C30: when two bulk-import requests for the list that ran concurrently
\* have both answered with success, the stored list holds every url of both
\* and no two urls of the list have the same position.
C30_ConcurrentImportsBothTakeEffect ==
    (\A r \in Reqs : req[r].status = 200)
        => /\ \A r \in Reqs : \A id \in req[r].urlIds :
                 \E k \in 1..Len(listUrls) : listUrls[k].id = id
           /\ \A j, k \in 1..Len(listUrls) :
                 (j # k /\ listUrls[j].position # NoPosition)
                    => listUrls[j].position # listUrls[k].position


\* The sessions of S that a cleanup running at time t may keep.
Eligible(S, t) == RecentActive(Unexpired(S, t), t)

\* The users a finished cleanup was about.
AffectedUsers(job) ==
    IF job.kind = "user" THEN {job.user} ELSE {s.user : s \in job.seen}

\* C22: when cleanupOldSessionsForUser(user, k) or globalSessionCleanup
\* (k = 3) has completed and nothing else changed the sessions meanwhile,
\* each affected user has at most k sessions left, all of them unexpired
\* and active within the last 7 days; every other session the user had is
\* deleted, and none of the deleted ones that were unexpired and active
\* within 7 days was more recently active than a session that is left.
C22_CleanupKeepsMostRecent ==
    \A j \in Jobs :
        jobs[j].pc = "done"
            => \A u \in AffectedUsers(jobs[j]) :
                  LET kept == OfUser(sessions, u)
                      before == OfUser(jobs[j].seen, u)
                  IN  /\ kept \subseteq before
                      /\ Cardinality(kept) <= jobs[j].keep
                      /\ kept \subseteq Eligible(before, clock)
                      /\ \A d \in Eligible(before, clock) \ kept :
                            /\ Cardinality(kept) = jobs[j].keep
                            /\ \A s \in kept :
                                  s.lastActivityAt >= d.lastActivityAt

\* The global cleanup has finished for a user who had more than three
\* eligible sessions; the first session ever created is among those left.
C22_Witness ==
    \E j \in Jobs :
        /\ jobs[j].pc = "done"
        /\ jobs[j].kind = "global"
        /\ \E u \in Users :
              /\ Cardinality(Eligible(OfUser(jobs[j].seen, u), clock))
                    > KeepGlobal
              /\ \E s \in OfUser(sessions, u) : s.id = 1


\* C27: a getCurrentSession call that presents a token whose session has
\* been deleted by deleteSession or signOut, or whose expiresAt has passed,
\* returns null, also when the module-level cache answers it.
C27_EndedSessionReadsNull ==
    [][(/\ lastOp'.op = "getCurrentSession"
        /\ \A s \in sessions :
              s.id = lastOp'.token => s.expiresAt < clock)
          => lastOp'.result = 0]_vars


\* C28: when the cleanup that createSession started finishes, the session
\* that createSession created is still in the table, whatever logins of
\* the same user and lastActivityAt updates ran in between.
C28_NewSessionSurvivesItsCleanup ==
    [][\A j \in Jobs :
          (/\ jobs[j].own # 0
           /\ jobs[j].pc = "delete"
           /\ jobs'[j].pc = "done")
             => jobs[j].own \in Ids(sessions')]_vars


(***************************************************************************)
(* Permissions: getUserRole and checkPermissions on the server,            *)
(* useListPermissions in the browser.  An e-mail address is the sequence   *)
(* of its characters; collaboratorRoles is the object's entries in key     *)
(* order.                                                                  *)
(***************************************************************************)
MaxEntries == 2

\* String.prototype.toLowerCase, on the letters the addresses are made of.
LowerOf(c) == IF c = "A" THEN "a" ELSE IF c = "B" THEN "b" ELSE c

ToLowerCase(s) == [i \in 1..Len(s) |-> LowerOf(s[i])]

Emails == {<<"a", "n">>, <<"A", "n">>, <<"b", "o">>}

\* The values a collaboratorRoles entry may hold; the code reads the
\* object as Record<string, string>.
StoredRoles == {"editor", "viewer", "admin"}

RoleEntries == [key : Emails, role : StoredRoles]

\* Objects have no two equal keys.
RoleMaps ==
    {m \in UNION {[1..n -> RoleEntries] : n \in 0..MaxEntries} :
        \A i, j \in 1..Len(m) : m[i].key = m[j].key => i = j}

Lists ==
    {NoList} \cup
    [id : {"l1"}, userId : Users, collaboratorRoles : RoleMaps,
     collaborators : SUBSET Emails, isPublic : BOOLEAN]

PermUsers == {NoUser} \cup [id : Users, email : Emails]

\* Object.keys(roles).find(key => key === user.email): 0 for undefined.
MatchingKeySameCase(roles, email) ==
    LET hits == {i \in 1..Len(roles) : roles[i].key = email}
    IN  IF hits = {} THEN 0 ELSE CHOOSE i \in hits : \A j \in hits : i <= j

\* Object.keys(roles).find(key => key.toLowerCase() === userEmailLower):
\* the index of the first such entry, 0 for undefined.
MatchingKey(roles, email) ==
    LET hits == {i \in 1..Len(roles) :
                    ToLowerCase(roles[i].key) = ToLowerCase(email)}
    IN  IF hits = {} THEN 0 ELSE CHOOSE i \in hits : \A j \in hits : i <= j

\* list.collaborators.some(email => email.toLowerCase() === userEmailLower)
InCollaborators(collaborators, email) ==
    \E c \in collaborators : ToLowerCase(c) = ToLowerCase(email)

GetUserRoleSameCase(list, userId, user) ==
    IF userId = "" THEN "none"
    ELSE IF list = NoList THEN "none"
    ELSE IF list.userId = userId THEN "owner"
    ELSE IF user = NoUser \/ user.id # userId THEN "none"
    ELSE LET roles == list.collaboratorRoles
             k == MatchingKeySameCase(roles, user.email)
         IN  IF k # 0 /\ roles[k].role \in {"editor", "viewer"}
             THEN roles[k].role
             ELSE IF InCollaborators(list.collaborators, user.email)
             THEN "editor"
             ELSE IF list.isPublic THEN "viewer"
             ELSE "none"

\* getUserRole(listId, userId), where the list is what getListById returns
\* and user what getCurrentUser returns.
GetUserRole(list, userId, user) ==
    IF userId = "" THEN "none"
    ELSE IF list = NoList THEN "none"
    ELSE IF list.userId = userId THEN "owner"
    ELSE IF user = NoUser \/ user.id # userId THEN "none"
    ELSE LET roles == list.collaboratorRoles
             k == MatchingKey(roles, user.email)
         IN  IF k # 0 /\ roles[k].role \in {"editor", "viewer"}
             THEN roles[k].role
             ELSE IF InCollaborators(list.collaborators, user.email)
             THEN "editor"
             ELSE IF list.isPublic THEN "viewer"
             ELSE "none"

\* checkPermissions(listId, userId)
CheckPermissionsResult(list, userId, user) ==
    LET role == GetUserRole(list, userId, user)
    IN  [canEdit |-> role = "owner" \/ role = "editor",
         canDelete |-> role = "owner",
         canInvite |-> role = "owner",
         canComment |-> role # "none",
         role |-> role, userId |-> userId]

\* The object useListPermissions returns at one of its return statements.
ClientResult(edit, delete, invite, comment, role, user) ==
    [canEdit |-> edit, canDelete |-> delete, canInvite |-> invite,
     canComment |-> comment, role |-> role, userId |-> user.id]

\* useListPermissions(), where list is the value of the currentList store
\* and user the user of useSession.
UseListPermissionsResult(list, user) ==
    IF user = NoUser \/ list.id = ""
    THEN ClientResult(FALSE, FALSE, FALSE, FALSE, "none", user)
    ELSE IF list.userId = user.id
    THEN ClientResult(TRUE, TRUE, TRUE, TRUE, "owner", user)
    ELSE LET roles == list.collaboratorRoles
             k == MatchingKey(roles, user.email)
         IN  IF k # 0 /\ roles[k].role = "editor"
             THEN ClientResult(TRUE, FALSE, FALSE, TRUE, "editor", user)
             ELSE IF k # 0 /\ roles[k].role = "viewer"
             THEN ClientResult(FALSE, FALSE, FALSE, TRUE, "viewer", user)
             ELSE IF InCollaborators(list.collaborators, user.email)
             THEN ClientResult(TRUE, FALSE, FALSE, TRUE, "editor", user)
             ELSE IF list.isPublic
             THEN ClientResult(FALSE, FALSE, FALSE, TRUE, "viewer", user)
             ELSE ClientResult(FALSE, FALSE, FALSE, FALSE, "none", user)

PermStep(op) ==
    /\ lastOp' = op
    /\ UNCHANGED <<nonClientVars, storeVars, sseVars, permList, permUser>>

\* A route handler calls checkPermissions(listId, userId).
CheckPermissions(userId) ==
    /\ serverPerms' = CheckPermissionsResult(permList, userId, permUser)
    /\ UNCHANGED clientPerms
    /\ PermStep(Op("checkPermissions"))

\* A component renders and calls useListPermissions().
UseListPermissions ==
    /\ clientPerms' = UseListPermissionsResult(permList, permUser)
    /\ UNCHANGED serverPerms
    /\ PermStep(Op("useListPermissions"))

\* SpecPerm: every list and every session user, then the two checks in
\* any order; the server is asked about any user id.
InitPerm ==
    /\ Constructed(NativeFetch)
    /\ ~development
    /\ permList \in Lists
    /\ permUser \in PermUsers

NextPerm ==
    \/ \E userId \in Users \cup {""} : CheckPermissions(userId)
    \/ UseListPermissions

SpecPerm == InitPerm /\ [][NextPerm]_vars

\* The role the documented priority allows for a user on a list.
DocumentedRoles(list, user) ==
    LET matching == {i \in 1..Len(list.collaboratorRoles) :
                        ToLowerCase(list.collaboratorRoles[i].key)
                            = ToLowerCase(user.email)}
    IN  IF user = NoUser \/ list = NoList THEN {"none"}
        ELSE IF list.userId = user.id THEN {"owner"}
        ELSE IF matching # {}
        THEN {list.collaboratorRoles[i].role : i \in matching}
        ELSE IF \E c \in list.collaborators :
                    ToLowerCase(c) = ToLowerCase(user.email)
        THEN {"editor"}
        ELSE IF list.isPublic THEN {"viewer"}
        ELSE {"none"}

\* Every stored role is one of the two the type allows.
WellTyped(list) ==
    \A i \in 1..Len(list.collaboratorRoles) :
        list.collaboratorRoles[i].role \in {"editor", "viewer"}

FlagsFollowRole(p) ==
    /\ p.canDelete <=> p.role = "owner"
    /\ p.canInvite <=> p.role = "owner"
    /\ p.canEdit <=> p.role \in {"owner", "editor"}
    /\ p.canComment <=> p.role # "none"

\* C23: asked about the session's user, the server's checkPermissions and
\* the browser's useListPermissions return the same role and the same four
\* flags for every list and user; the role is owner for the list's owner,
\* else that of a collaboratorRoles entry whose key equals the user's
\* address up to letter case, else editor for a legacy collaborator, else
\* viewer on a public list, else none; canDelete and canInvite hold exactly
\* for owner, canEdit exactly for owner and editor, canComment exactly for
\* every role but none.
C23_ServerAndClientAgree ==
    /\ serverPerms.role # "unset" => FlagsFollowRole(serverPerms)
    /\ clientPerms.role # "unset" => FlagsFollowRole(clientPerms)
    /\ (clientPerms.role # "unset" /\ WellTyped(permList))
          => clientPerms.role \in DocumentedRoles(permList, permUser)
    /\ (/\ serverPerms.role # "unset"
        /\ clientPerms.role # "unset"
        /\ serverPerms.userId = permUser.id)
          => serverPerms = clientPerms

\* Both checks have answered for a user whose address differs in letter
\* case from the key of their collaboratorRoles entry, on a private list
\* where they are no legacy collaborator: both say viewer.
C23_Witness ==
    /\ serverPerms.role = "viewer"
    /\ clientPerms.role = "viewer"
    /\ serverPerms.userId = permUser.id
    /\ ~permList.isPublic
    /\ permList.collaborators = {}
    /\ permList.userId # permUser.id
    /\ \A i \in 1..Len(permList.collaboratorRoles) :
          permList.collaboratorRoles[i].key # permUser.email


(***************************************************************************)
(* The currentList store and the delete-URL mutation of                    *)
(* useDeleteUrl("l1", "s1").                                               *)
(***************************************************************************)
SlugOf(id) == IF id = "l1" THEN "s1" ELSE "s2"

\* data.list of a response for list id, given the urls l1 has.
ServerList(id, urls) ==
    [id |-> id, slug |-> SlugOf(id),
     urls |-> IF id = "l1" THEN urls ELSE <<>>]

\* urls.filter((u) => u.id !== urlId)
FilterOut(urls, urlId) == SelectSeq(urls, LAMBDA u : u # urlId)

StoreStep(op) ==
    /\ lastOp' = op
    /\ UNCHANGED <<nonClientVars, permVars, sseVars>>

\* The queryFn of useUnifiedListQuery answers for list id.
UnifiedQueryLoads(id) ==
    /\ deletion.pc = "idle"
    /\ currentList' = ServerList(id, serverUrls)
    /\ UNCHANGED <<deletion, serverUrls>>
    /\ StoreStep(Op("unifiedQuery"))

\* onMutate up to its await: the optimistic removal.
DeleteUrlMutate(urlId) ==
    /\ deletion.pc = "idle"
    /\ currentList' =
          IF currentList.id = "l1"
          THEN [currentList EXCEPT !.urls = FilterOut(@, urlId)]
          ELSE currentList
    /\ deletion' = [pc |-> "cancelling", urlId |-> urlId,
                    before |-> currentList, previous |-> EmptyStore]
    /\ UNCHANGED serverUrls
    /\ StoreStep(Op("deleteUrlMutate"))

\* onMutate after cancelQueries has resolved: the context it returns.
DeleteUrlContext ==
    /\ deletion.pc = "cancelling"
    /\ deletion' = [deletion EXCEPT !.pc = "request",
                                    !.previous = currentList]
    /\ UNCHANGED <<currentList, serverUrls>>
    /\ StoreStep(Op("deleteUrlContext"))

\* The DELETE request succeeds: onSuccess stores data.list.
DeleteUrlSuccess ==
    /\ deletion.pc = "request"
    /\ serverUrls' = FilterOut(serverUrls, deletion.urlId)
    /\ currentList' = ServerList("l1", serverUrls')
    /\ deletion' = IdleDeletion
    /\ StoreStep(Op("deleteUrlSuccess"))

\* The DELETE request fails: onError sets the store to context.previous
\* and invalidates the list queries.
DeleteUrlError ==
    /\ deletion.pc = "request"
    /\ currentList' = deletion.previous
    /\ deletion' = [deletion EXCEPT !.pc = "rolledBack"]
    /\ UNCHANGED serverUrls
    /\ StoreStep(Op("deleteUrlError"))

\* The refetch the invalidation asked for answers (ok) or fails.
DeleteUrlRefetch(ok) ==
    /\ deletion.pc = "rolledBack"
    /\ currentList' = IF ok THEN ServerList("l1", serverUrls)
                            ELSE currentList
    /\ deletion' = IdleDeletion
    /\ UNCHANGED serverUrls
    /\ StoreStep(Op("deleteUrlRefetch"))

InitPage == Init /\ windowFetch = NativeFetch /\ ~development

NextDelete ==
    \/ \E id \in {"l1", "l2"} : UnifiedQueryLoads(id)
    \/ \E urlId \in 1..MaxStoreUrls : DeleteUrlMutate(urlId)
    \/ DeleteUrlContext
    \/ DeleteUrlSuccess
    \/ DeleteUrlError
    \/ \E ok \in BOOLEAN : DeleteUrlRefetch(ok)

SpecDelete == InitPage /\ [][NextDelete]_vars

\* C26: when the delete-URL mutation has failed and onError has run, the
\* currentList store holds the value it had before the optimistic removal,
\* so the url that was removed is in the store again.
C26_FailedDeleteRestoresStore ==
    deletion.pc = "rolledBack" => currentList = deletion.before


(***************************************************************************)
(* The SSE cache sync: the one unified-update listener of                  *)
(* setupSSECacheSync and its debounce timer.  An event that arrives        *)
(* "within the debounce window" is one handled while the timer is          *)
(* pending.  The listener stays mounted.                                   *)
(***************************************************************************)
MaxStamp == 1

\* globalProcessedInvocations keeps its last 100 keys.
KeepInvocations == 100

CollaboratorActions ==
    {"collaborator_added", "collaborator_role_updated",
     "collaborator_removed"}

\* detail of a unified-update event; "" and 0 stand for a missing field.
\* An event that names a slug names that of its list.
Events ==
    {ev \in [listId : {"", "l1", "l2"}, slug : {"", "s1", "s2"},
             action : {"url_added", "collaborator_added"},
             timestamp : 0..MaxStamp] :
        ev.slug # "" => ev.listId # "" /\ ev.slug = SlugOf(ev.listId)}

\* Whether the event gets past the grace-period check.  recent: the
\* event's timestamp is less than 60 s old or cannot be parsed; connected:
\* globalSSEConnectedTime is set; inGrace: it is less than
\* initialLoadGracePeriod ago.
PassesGracePeriod(ev, recent, connected, inGrace) ==
    LET isCollaboratorAction == ev.action \in CollaboratorActions
        shouldIgnoreGracePeriod ==
            /\ isCollaboratorAction
            /\ IF ev.timestamp # 0
               THEN recent \/ (connected /\ ~inGrace)
               ELSE TRUE
    IN  ~(~shouldIgnoreGracePeriod /\ connected /\ inGrace)

\* listSlug: the event's slug, else that of the store when it shows the
\* event's list, else none.
ListSlug(ev, store) ==
    IF ev.slug # "" THEN ev.slug
    ELSE IF store.id = ev.listId /\ store.slug # "" THEN store.slug
    ELSE ""

\* invocationKey; now is Date.now().
InvocationKey(listSlug, ev, now) ==
    IF ev.timestamp # 0
    THEN <<listSlug, ev.action, "at", ev.timestamp>>
    ELSE <<listSlug, ev.action, "now", now>>

\* The processed set after key was added: all keys while there are at most
\* KeepInvocations, else KeepInvocations of them, the new one among them.
ProcessedAfter(processed, key) ==
    LET all == processed \cup {key}
    IN  IF Cardinality(all) > KeepInvocations
        THEN {K \in SUBSET all :
                 key \in K /\ Cardinality(K) = KeepInvocations}
        ELSE {all}

SseStep(op) ==
    /\ lastOp' = op
    /\ UNCHANGED <<nonClientVars, permVars, storeVars>>

\* handleUnifiedUpdate(event)
HandleUnifiedUpdate(ev, now, recent, connected, inGrace) ==
    LET listSlug == ListSlug(ev, currentList)
        key == InvocationKey(listSlug, ev, now)
        handled == /\ ev.listId # ""
                   /\ PassesGracePeriod(ev, recent, connected, inGrace)
                   /\ listSlug # ""
                   /\ key \notin globalProcessedInvocations
    IN  /\ connected \/ ~inGrace
        /\ IF handled
           THEN /\ globalProcessedInvocations'
                      \in ProcessedAfter(globalProcessedInvocations, key)
                /\ globalInvalidationTimeout' = listSlug
                /\ accepted' = accepted \cup {listSlug}
                /\ UNCHANGED invalidations
           ELSE UNCHANGED sseVars
        /\ SseStep([Op("unifiedUpdate") EXCEPT
                       !.outcome = IF handled THEN "scheduled"
                                              ELSE "ignored"])

\* The debounce timer fires: the callback of setTimeout.
InvalidationTimerFires ==
    /\ globalInvalidationTimeout # ""
    /\ invalidations' = invalidations \cup {globalInvalidationTimeout}
    /\ accepted' = accepted \ {globalInvalidationTimeout}
    /\ globalInvalidationTimeout' = ""
    /\ UNCHANGED globalProcessedInvocations
    /\ SseStep(Op("invalidateUnified"))

NextSse ==
    \/ \E ev \in Events, now \in 1..MaxStamp,
          recent, connected, inGrace \in BOOLEAN :
          HandleUnifiedUpdate(ev, now, recent, connected, inGrace)
    \/ InvalidationTimerFires
    \/ \E id \in {"l1", "l2"} : UnifiedQueryLoads(id)

SpecSse == InitPage /\ [][NextSse]_vars

\* A timer that is set fires after invalidationDelay.
FairSpecSse == SpecSse /\ WF_vars(InvalidationTimerFires)

\* C29: every event that gets past the listId, grace-period, slug and
\* duplicate checks is followed, sooner or later, by an invalidation of
\* the unified query of its own list, whatever events for other lists
\* arrive while the debounce timer is pending.
C29_AcceptedEventInvalidatesItsList ==
    \A s \in {"s1", "s2"} : (s \in accepted) ~> (s \notin accepted)

=============================================================================
